---- MODULE Spec2Model ----
\* Model of the `auto` crate (auto-lang/Auto): the macOS event wrappers
\* (os/macos/mod.rs, macros.rs, keyboard, mouse.rs, wheel.rs), the pixel
\* sampler (os/macos/screen.rs), the application handles (os/macos/app.rs),
\* the mouse cursor queries and the native objects they own.
\*
\* The operating system is modelled as far as the wrappers can observe it:
\* native event objects with a release count, flags and a location; captured
\* images; the Quartz event stream.  Every API call of the crate is one action
\* and records, in `last`, the native calls it issued and what it returned.
EXTENDS Integers, Sequences, FiniteSets, TLC

\* ---------------------------------------------------------------------------
\* Bounds of the model
\* ---------------------------------------------------------------------------
\* Largest number of event wrappers ever constructed in one behaviour.
MaxEvents == 3
\* Largest number of events submitted to the event stream.
MaxPosts == 2
\* The same two limits for the specification of flags and posting.
MaxFlagEvents == 2
MaxFlagPosts == 2
\* Largest number of mouse events, and of wheel events, in their specifications.
MaxMouseEvents == 1
MaxWheelEvents == 2
\* Largest number of bitmaps allocated (one for each Colors iterator and one
\* for each color_at call), and of images the display hands out.
MaxColors == 2
MaxImages == 1
\* Largest number of App wrappers obtained from App::from_pid, and of
\* color_at calls next to them.
MaxApps == 2
MaxAppSamples == 1
\* Windows: the number of bits of a c_int in the model (usize has as many on
\* a 32-bit target and twice as many on a 64-bit target), and the size of
\* the screen rectangle in pixels.
IntBits == 3
ScreenW == 3
ScreenH == 2
\* Windows: largest number of device contexts GetDC hands out.
MaxDCs == 2
\* NSString objects the getters and str_to_ns_string hand out.
MaxStrings == 2
\* Processes started by launch and open_file.
MaxLaunches == 1
\* Mutated events: events built, and events posted.
MaxMutatedEvents == 2
MaxMutatedPosts == 2
\* Displays attached at one time.
MaxDisplays == 2
\* Objects of each native family (events, bitmaps, applications, strings).
MaxPerFamily == 1
\* Typed events: wrappers built or cloned, and events posted.
MaxTypedEvents == 2
MaxTypedPosts == 1
\* Largest number of LocationIter values.
MaxIters == 2
\* Number of threads of the program.
NThreads == 3
\* Largest number of event wrappers, and of posts, in the specification of
\* events shared between threads.
MaxSharedEvents == 2
MaxSharedPosts == 1
\* Number of threads that share events.
MaxSharers == 2
\* Largest number of NSStrings while threads call launch and open_file, and
\* the number of threads that call them.
MaxCallStrings == 3
MaxCallers == 2
\* Largest number of App wrappers while they do.
MaxCallApps == 1
\* Largest number of Colors sequences whose fields the caller reassigns.
MaxSamplers == 1
\* Spacing of the single-precision grid on the integer grid of doubles.
F32Step == 2
\* Largest finite single-precision magnitude on that grid.
F32Max == 4

\* ---------------------------------------------------------------------------
\* Floating point values (f64 / f32 / CGFloat)
\* ---------------------------------------------------------------------------
\* A double is a grid point, a NaN or an infinity.
F(v) == [k |-> "fin", v |-> v]
NaN == [k |-> "nan", v |-> 0]
PosInf == [k |-> "inf", v |-> 1]
NegInf == [k |-> "inf", v |-> -1]

\* f64::is_finite
is_finite(x) == x.k = "fin"

Abs(n) == IF n < 0 THEN -n ELSE n

\* Whether the single-precision value at grid point m (a multiple of F32Step)
\* has an even mantissa.  Zero has; f32::MAX, whose mantissa bits are all
\* ones, has not, and below it the parity alternates from one value to the
\* next.
EvenMantissa(m) == m = 0 \/ ((F32Max - m) \div F32Step) % 2 = 1

\* Nearest multiple of F32Step to a non-negative grid point; a tie goes to the
\* neighbour with the even mantissa.
RoundToStep(n) ==
    LET q == n \div F32Step
        r == n % F32Step
    IN  IF 2 * r < F32Step THEN q * F32Step
        ELSE IF 2 * r > F32Step THEN (q + 1) * F32Step
        ELSE IF EvenMantissa(q * F32Step) THEN q * F32Step ELSE (q + 1) * F32Step

\* `x as f32` for an f64: round to nearest, overflow to infinity.  The
\* mantissa of f32::MAX is odd, so the ties half a step from it round away
\* from it on both sides: the one above to infinity, as every larger
\* magnitude does, the one below to the next smaller value.
as_f32(x) ==
    IF x.k # "fin" THEN x
    ELSE LET a == Abs(x.v)
             m == RoundToStep(a)
             s == IF x.v < 0 THEN -1 ELSE 1
         IN  IF 2 * a >= 2 * F32Max + F32Step \/ m > F32Max
             THEN [k |-> "inf", v |-> s]
             ELSE F(s * m)

\* `x as CGFloat`: c_double on 64-bit targets, c_float otherwise.
as_CGFloat(w, x) == IF w = 64 THEN x ELSE as_f32(x)

\* `c as f64` for a CGFloat: exact on both targets.
as_f64(c) == c

\* impl From<Location> for CGPoint
CGPoint_from(w, loc) == [x |-> as_CGFloat(w, loc[1]), y |-> as_CGFloat(w, loc[2])]

\* impl From<CGPoint> for Location
Location_from(p) == <<as_f64(p.x), as_f64(p.y)>>

\* ---------------------------------------------------------------------------
\* Enumerations passed to native calls
\* ---------------------------------------------------------------------------
\* enum CGEventType, in declaration order; the native code is the position.
CGEventType ==
    << "Null", "LeftMouseDown", "LeftMouseUp", "RightMouseDown", "RightMouseUp",
       "MouseMoved", "LeftMouseDragged", "RightMouseDragged", "KeyDown", "KeyUp",
       "FlagsChanged", "ScrollWheel", "TabletPointer", "TabletProximity",
       "OtherMouseDown", "OtherMouseUp", "OtherMouseDragged",
       "TapDisabledByTimeout", "TapDisabledByUserInput" >>

CGEventTypeCode(name) == (CHOOSE i \in 1..Len(CGEventType) : CGEventType[i] = name) - 1

Buttons == {"Left", "Right"}
EventKinds == {"Down", "Up", "Moved", "Dragged"}

\* `button as raw::c_int`
ButtonCode(b) == IF b = "Left" THEN 0 ELSE 1

\* A (Left, Moved) pair wrongly mapped to the drag type.
CGEventType_from_Mutant(button, kind) ==
    CASE button = "Left"  /\ kind = "Down"    -> "LeftMouseDown"
      [] button = "Left"  /\ kind = "Up"      -> "LeftMouseUp"
      [] button = "Left"  /\ kind = "Moved"   -> "LeftMouseDragged"
      [] button = "Left"  /\ kind = "Dragged" -> "LeftMouseDragged"
      [] button = "Right" /\ kind = "Down"    -> "RightMouseDown"
      [] button = "Right" /\ kind = "Up"      -> "RightMouseUp"
      [] button = "Right" /\ kind = "Moved"   -> "MouseMoved"
      [] button = "Right" /\ kind = "Dragged" -> "RightMouseDragged"

\* impl From<(Button, EventKind)> for CGEventType
CGEventType_from(button, kind) ==
    CASE button = "Left"  /\ kind = "Down"    -> "LeftMouseDown"
      [] button = "Left"  /\ kind = "Up"      -> "LeftMouseUp"
      [] button = "Left"  /\ kind = "Moved"   -> "MouseMoved"
      [] button = "Left"  /\ kind = "Dragged" -> "LeftMouseDragged"
      [] button = "Right" /\ kind = "Down"    -> "RightMouseDown"
      [] button = "Right" /\ kind = "Up"      -> "RightMouseUp"
      [] button = "Right" /\ kind = "Moved"   -> "MouseMoved"
      [] button = "Right" /\ kind = "Dragged" -> "RightMouseDragged"

EventLocations == {"Hid", "Session", "AnnotatedSession"}

\* Codes that count the injection points from one.
EventLocationCode_FromOne(l) ==
    CASE l = "Hid" -> 1 [] l = "Session" -> 2 [] l = "AnnotatedSession" -> 3

\* `location as raw::c_int` for enum EventLocation
EventLocationCode(l) ==
    CASE l = "Hid" -> 0 [] l = "Session" -> 1 [] l = "AnnotatedSession" -> 2

ScrollUnits == {"Pixel", "Line"}

\* `unit as raw::c_int` for enum ScrollUnit
ScrollUnitCode(u) == IF u = "Pixel" THEN 0 ELSE 1

\* bitflags EventFlags: a value is a set of bits
SHIFT == 131072
NON_COALESCED == 256
FlagBits == {SHIFT, NON_COALESCED}
EventFlags == SUBSET FlagBits

\* The array lengths `impl_wheels!` implements the sealed trait Wheels for.
impl_wheels == {1, 2, 3}

\* ---------------------------------------------------------------------------
\* State
\* ---------------------------------------------------------------------------
VARIABLES
    width,      \* target_pointer_width of the build: 32 or 64
    objs,       \* native Core-Foundation event objects, indexed by handle
    evs,        \* the Event wrappers constructed so far
    stream,     \* the Quartz event stream: how many events CGEventPost submitted
    crashed,    \* the process was aborted by a native call on NULL
    uaf,        \* a native call was issued on a released handle
    imgs,       \* images captured by CGDisplayCreateImageForRect, by handle
    bitmaps,    \* NSBitmapImageRep objects allocated by Colors::new, by handle
    seqs,       \* the Colors iterators constructed so far
    last,       \* the last API call: operation, wrapper, result, native calls
    cursor,     \* where the operating system has the mouse cursor (a CGPoint)
    iters,      \* the LocationIter values constructed so far
    once,       \* the lazily initialised static CURRENT_APPLICATION
    pc,         \* the position of each thread inside App::current()
    procs,      \* the processes of the system, by process identifier
    nsapps,     \* native NSRunningApplication objects, by handle
    apps,       \* the App wrappers obtained so far
    shares,     \* for each Event wrapper: the thread owning it, the threads
                \* holding a shared reference to it
    wcursor,    \* Windows: where the system has the cursor (a POINT)
    dcs,        \* Windows: the device contexts GetDC handed out, by handle
    buf,        \* the caller's Vec<Display> that write_online / write_active fill
    spare,      \* the memory of that Vec past its length: per cell, what it may hold
    strs,       \* NSString objects handed out by Cocoa getters, by handle
    workspace,  \* the lazily initialised static NS_WORKSPACE_SHARED: "new",
                \* "running" (its initialiser runs) or "done"
    calling     \* the position of each thread inside launch or open_file

\* The state of threads, applications and the cursor: the event builders and
\* the pixel sampler leave all of it alone.
tvars == <<cursor, iters, once, pc, procs, nsapps, apps, shares>>

\* The state of the event builders and of the pixel sampler, which the
\* operations on applications, threads and the cursor leave alone.
evars == <<width, objs, evs, stream, crashed, uaf, imgs, bitmaps, seqs>>

\* The state of the Windows build, of the display lists and of the strings.
wvars == <<wcursor, dcs, buf, spare, strs, workspace, calling>>

vars == <<width, objs, evs, stream, crashed, uaf, imgs, bitmaps, seqs, last,
          cursor, iters, once, pc, procs, nsapps, apps, shares,
          wcursor, dcs, buf, spare, strs, workspace, calling>>

\* The null pointer.
NULL == 0

\* Option<T>
None == [some |-> FALSE]
Some(v) == [some |-> TRUE, v |-> v]

NoCall == [op |-> "none", ev |-> 0, ret |-> "none", calls |-> <<>>]

Handles == 1..Len(objs)
LiveEvents == {e \in 1..Len(evs) : evs[e].live}

\* A handle whose object the wrappers have released.
Released(h) == h \in Handles /\ objs[h].rel >= 1


\* ---------------------------------------------------------------------------
\* The native event API (extern declarations of mod.rs, keyboard, mouse, wheel)
\* ---------------------------------------------------------------------------
\* The handle a native create or copy call returns: a new object, or NULL when
\* the event could not be created.
NewHandle(ok) == IF ok THEN Len(objs) + 1 ELSE NULL

\* The objects after a create or copy call that allocated one (or failed to).
Allocated(ok, flags, loc) ==
    IF ok THEN Append(objs, [rel |-> 0, flags |-> flags, loc |-> loc]) ELSE objs

\* Where the operating system places an event created without a location.
CursorPoint == [x |-> F(0), y |-> F(0)]

\* CFRelease(h), h # NULL: one release of the object.
CFRelease(h) == [objs EXCEPT ![h].rel = @ + 1]

\* CGEventSetFlags(h, flags), h # NULL
CGEventSetFlags(h, flags) == [objs EXCEPT ![h].flags = flags]

\* CGEventGetFlags(h), h # NULL
CGEventGetFlags(h) == objs[h].flags

\* CGEventSetLocation(h, point), h # NULL
CGEventSetLocation(h, point) == [objs EXCEPT ![h].loc = point]

\* CGEventGetLocation(h), h # NULL
CGEventGetLocation(h) == objs[h].loc

\* CGEventPost(tap, h), h # NULL: the stream receives one more event.
CGEventPost(tap, h) == stream + 1

\* A native call on the NULL pointer other than CFRelease: the process aborts
\* or the call does nothing, as the operating system decides.
CallOnNull(op, e, fn, ret) ==
    /\ crashed' \in BOOLEAN
    /\ last' = [op |-> op, ev |-> e, ret |-> ret, calls |-> <<[fn |-> fn, h |-> NULL]>>]
    /\ UNCHANGED <<wvars, tvars, imgs, bitmaps, seqs, width, objs, evs, stream, uaf>>

\* ---------------------------------------------------------------------------
\* Typed event builders
\* ---------------------------------------------------------------------------
\* The wrapper a constructor returns around the pointer the native call gave:
\* Event(super::Event(...)) or mem::transmute(event).
\* `from` remembers the wrapper a clone was made of (0: built by a constructor).
NewEvent(cls, h, from) == Append(evs, [cls |-> cls, h |-> h, live |-> TRUE, from |-> from])

\* keyboard::Event::new(key, down)
keyboard_Event_new(key, down, ok, f0) ==
    /\ ~crashed
    /\ LET h == NewHandle(ok) IN
       /\ objs' = Allocated(ok, f0, CursorPoint)
       /\ evs' = NewEvent("keyboard", h, 0)
       /\ last' = [op |-> "keyboard::Event::new", ev |-> Len(evs'), ret |-> h,
                   calls |-> <<[fn |-> "CGEventCreateKeyboardEvent", source |-> NULL,
                                key |-> key, down |-> down, ret |-> h]>>]
    /\ UNCHANGED <<wvars, tvars, imgs, bitmaps, seqs, width, stream, crashed, uaf>>

\* mouse::Event::new(button, kind, location)
mouse_Event_new(button, kind, location, ok, f0) ==
    /\ ~crashed
    /\ LET h == NewHandle(ok)
           point == CGPoint_from(width, location)
       IN
       /\ objs' = Allocated(ok, f0, point)
       /\ evs' = NewEvent("mouse", h, 0)
       /\ last' = [op |-> "mouse::Event::new", ev |-> Len(evs'), ret |-> h,
                   calls |-> <<[fn |-> "CGEventCreateMouseEvent", source |-> NULL,
                                mouse_type |-> CGEventTypeCode(CGEventType_from(button, kind)),
                                point |-> point, button |-> ButtonCode(button),
                                arg |-> <<button, kind, location>>, ret |-> h]>>]
    /\ UNCHANGED <<wvars, tvars, imgs, bitmaps, seqs, width, stream, crashed, uaf>>

\* A dispatch whose last arm forgets the third wheel.
WheelArgs_Mutant(count, slice) ==
    CASE count = 1 -> <<slice[1]>>
      [] count = 2 -> <<slice[1], slice[2]>>
      [] OTHER     -> <<slice[1], slice[2]>>

\* The variadic arguments chosen by `match count` in wheel::Event::new.
WheelArgs(count, slice) ==
    CASE count = 1 -> <<slice[1]>>
      [] count = 2 -> <<slice[1], slice[2]>>
      [] OTHER     -> <<slice[1], slice[2], slice[3]>>

\* wheel::Event::new(unit, wheels); `W: Wheels` admits only the array lengths
\* of impl_wheels.  Indexing past the end of the slice panics.
wheel_Event_new(unit, wheels, ok, f0) ==
    /\ ~crashed
    /\ Len(wheels) \in impl_wheels
    /\ LET slice == wheels
           count == Len(slice)
       IN
       IF count \notin {1, 2} /\ count < 3
       THEN /\ last' = [op |-> "wheel::Event::new", ev |-> 0, ret |-> "panic", calls |-> <<>>]
            /\ UNCHANGED <<wvars, tvars, imgs, bitmaps, seqs, width, objs, evs, stream, crashed, uaf>>
       ELSE LET h == NewHandle(ok) IN
            /\ objs' = Allocated(ok, f0, CursorPoint)
            /\ evs' = NewEvent("wheel", h, 0)
            /\ last' = [op |-> "wheel::Event::new", ev |-> Len(evs'), ret |-> h,
                        calls |-> <<[fn |-> "CGEventCreateScrollWheelEvent", source |-> NULL,
                                     units |-> ScrollUnitCode(unit), wheelCount |-> count,
                                     wheels |-> WheelArgs(count, slice),
                                     arg |-> wheels, ret |-> h]>>]
            /\ UNCHANGED <<wvars, tvars, imgs, bitmaps, seqs, width, stream, crashed, uaf>>

\* ---------------------------------------------------------------------------
\* Event Core (impl Clone for Event, impl Drop for CFObject, impl Event)
\* ---------------------------------------------------------------------------
\* A clone that copies the bits of the handle instead of the native event.
CloneHandle_BitCopy(h, ok) == h

\* The handle Event::clone wraps: the result of CGEventCreateCopy.
CloneHandle(h, ok) == NewHandle(ok)

\* Event::clone (and the derived Clone of the typed events, which calls it)
Event_clone(e, ok) ==
    /\ ~crashed
    /\ e \in LiveEvents
    /\ LET h == evs[e].h IN
       IF h = NULL
       THEN /\ crashed' \in BOOLEAN
            /\ evs' = NewEvent(evs[e].cls, NULL, e)
            /\ last' = [op |-> "clone", ev |-> e, ret |-> NULL,
                        calls |-> <<[fn |-> "CGEventCreateCopy", h |-> NULL, ret |-> NULL]>>]
            /\ UNCHANGED <<wvars, tvars, imgs, bitmaps, seqs, width, objs, stream, uaf>>
       ELSE LET c == CloneHandle(h, ok) IN
            /\ objs' = Allocated(ok, objs[h].flags, objs[h].loc)
            /\ evs' = NewEvent(evs[e].cls, c, e)
            /\ uaf' = (uaf \/ Released(h))
            /\ last' = [op |-> "clone", ev |-> e, ret |-> c,
                        calls |-> <<[fn |-> "CGEventCreateCopy", h |-> h, ret |-> c]>>]
            /\ UNCHANGED <<wvars, tvars, imgs, bitmaps, seqs, width, stream, crashed>>

\* Drops whose primitives are exchanged between the two object wrappers.
ReleaseFn_Swapped(type) ==
    CASE type = "CFObject" -> "release"
      [] type = "NSObject" -> "CFRelease"
      [] type = "CGImage"  -> "CGImageRelease"

\* The release primitive in the Drop impl of each wrapper type: CFRelease for
\* CFObject (events), the message `release` for NSObject (bitmaps,
\* applications, strings), CGImageRelease for CGImage (captured images).
ReleaseFn(type) ==
    CASE type = "CFObject" -> "CFRelease"
      [] type = "NSObject" -> "release"
      [] type = "CGImage"  -> "CGImageRelease"

\* A drop that forgets to release.
DropRelease_Leak(h) == objs

\* What dropping the CFObject does to the native object: CFRelease(self.0).
DropRelease(h) == CFRelease(h)

\* Drop of an Event: drops its CFObject.  CFRelease(NULL) aborts the process.
Event_drop(e) ==
    /\ ~crashed
    /\ e \in LiveEvents
    /\ LET h == evs[e].h IN
       /\ evs' = [evs EXCEPT ![e].live = FALSE]
       /\ last' = [op |-> "drop", ev |-> e, ret |-> "unit",
                   calls |-> <<[fn |-> ReleaseFn("CFObject"), h |-> h]>>]
       /\ IF h = NULL
          THEN /\ crashed' = TRUE
               /\ UNCHANGED <<objs, uaf>>
          ELSE /\ objs' = DropRelease(h)
               /\ uaf' = (uaf \/ Released(h))
               /\ UNCHANGED crashed
    /\ UNCHANGED <<wvars, tvars, imgs, bitmaps, seqs, width, stream>>

\* A post that consumes the event it submits.
PostKeeps_Consuming(e) == [evs EXCEPT ![e].live = FALSE]

\* Event::post takes &self: the wrapper stays as it is.
PostKeeps(e) == evs

\* Event::post(location)
Event_post(e, location) ==
    /\ ~crashed
    /\ e \in LiveEvents
    /\ LET h == evs[e].h
           tap == EventLocationCode(location)
       IN
       IF h = NULL
       THEN CallOnNull("post", e, "CGEventPost", "unit")
       ELSE /\ stream' = CGEventPost(tap, h)
            /\ evs' = PostKeeps(e)
            /\ uaf' = (uaf \/ Released(h))
            /\ last' = [op |-> "post", ev |-> e, ret |-> "unit",
                        calls |-> <<[fn |-> "CGEventPost", tap |-> tap, h |-> h,
                                     flags |-> objs[h].flags, loc |-> objs[h].loc,
                                     arg |-> location]>>]
            /\ UNCHANGED <<wvars, tvars, imgs, bitmaps, seqs, width, objs, crashed>>

\* Event::flags()
Event_flags(e) ==
    /\ ~crashed
    /\ e \in LiveEvents
    /\ LET h == evs[e].h IN
       IF h = NULL
       THEN CallOnNull("flags", e, "CGEventGetFlags", {})
       ELSE /\ uaf' = (uaf \/ Released(h))
            /\ last' = [op |-> "flags", ev |-> e, ret |-> CGEventGetFlags(h),
                        calls |-> <<[fn |-> "CGEventGetFlags", h |-> h]>>]
            /\ UNCHANGED <<wvars, tvars, imgs, bitmaps, seqs, width, objs, evs, stream, crashed>>

\* set_flags confused with enable_flags: the old bits survive.
SetFlagsValue_Or(h, flags) == objs[h].flags \cup flags

\* The value Event::set_flags hands to CGEventSetFlags.
SetFlagsValue(h, flags) == flags

\* Event::set_flags(flags)
Event_set_flags(e, flags) ==
    /\ ~crashed
    /\ e \in LiveEvents
    /\ LET h == evs[e].h IN
       IF h = NULL
       THEN CallOnNull("set_flags", e, "CGEventSetFlags", "unit")
       ELSE /\ objs' = CGEventSetFlags(h, SetFlagsValue(h, flags))
            /\ uaf' = (uaf \/ Released(h))
            /\ last' = [op |-> "set_flags", ev |-> e, ret |-> "unit",
                        calls |-> <<[fn |-> "CGEventSetFlags", h |-> h,
                                     flags |-> SetFlagsValue(h, flags), arg |-> flags]>>]
            /\ UNCHANGED <<wvars, tvars, imgs, bitmaps, seqs, width, evs, stream, crashed>>

\* An enable_flags that toggles the bits instead of setting them.
EnabledFlags_Toggled(prev, flags) == (prev \ flags) \cup (flags \ prev)

\* prev | flags
EnabledFlags(prev, flags) == prev \cup flags

\* Event::enable_flags(flags): let prev = self.flags(); self.set_flags(prev | flags)
Event_enable_flags(e, flags) ==
    /\ ~crashed
    /\ e \in LiveEvents
    /\ LET h == evs[e].h IN
       IF h = NULL
       THEN \* CGEventGetFlags(NULL), and unless that aborted the process,
            \* CGEventSetFlags(NULL, prev | flags) with the flags it answered.
            \/ CallOnNull("enable_flags", e, "CGEventGetFlags", "unit") /\ crashed'
            \/ /\ crashed' \in BOOLEAN
               /\ last' = [op |-> "enable_flags", ev |-> e, ret |-> "unit",
                           calls |-> <<[fn |-> "CGEventGetFlags", h |-> NULL],
                                       [fn |-> "CGEventSetFlags", h |-> NULL,
                                        flags |-> EnabledFlags({}, flags),
                                        arg |-> flags]>>]
               /\ UNCHANGED <<wvars, tvars, imgs, bitmaps, seqs, width, objs, evs,
                              stream, uaf>>
       ELSE LET prev == CGEventGetFlags(h) IN
            /\ objs' = CGEventSetFlags(h, EnabledFlags(prev, flags))
            /\ uaf' = (uaf \/ Released(h))
            /\ last' = [op |-> "enable_flags", ev |-> e, ret |-> "unit",
                        calls |-> <<[fn |-> "CGEventGetFlags", h |-> h],
                                    [fn |-> "CGEventSetFlags", h |-> h,
                                     flags |-> EnabledFlags(prev, flags),
                                     arg |-> flags]>>]
            /\ UNCHANGED <<wvars, tvars, imgs, bitmaps, seqs, width, evs, stream, crashed>>

\* A conversion that swaps the coordinates.
LocationOfPoint_Swapped(p) == <<as_f64(p.y), as_f64(p.x)>>

\* The Location made of the CGPoint that CGEventGetLocation returned.
LocationOfPoint(p) == Location_from(p)

\* mouse::Event::location()
mouse_Event_location(e) ==
    /\ ~crashed
    /\ e \in LiveEvents
    /\ evs[e].cls = "mouse"
    /\ LET h == evs[e].h IN
       IF h = NULL
       THEN CallOnNull("location", e, "CGEventGetLocation", <<F(0), F(0)>>)
       ELSE /\ uaf' = (uaf \/ Released(h))
            /\ last' = [op |-> "location", ev |-> e,
                        ret |-> LocationOfPoint(CGEventGetLocation(h)),
                        calls |-> <<[fn |-> "CGEventGetLocation", h |-> h]>>]
            /\ UNCHANGED <<wvars, tvars, imgs, bitmaps, seqs, width, objs, evs, stream, crashed>>

\* mouse::Event::set_location(location)
mouse_Event_set_location(e, location) ==
    /\ ~crashed
    /\ e \in LiveEvents
    /\ evs[e].cls = "mouse"
    /\ LET h == evs[e].h
           point == CGPoint_from(width, location)
       IN
       IF h = NULL
       THEN CallOnNull("set_location", e, "CGEventSetLocation", "unit")
       ELSE /\ objs' = CGEventSetLocation(h, point)
            /\ uaf' = (uaf \/ Released(h))
            /\ last' = [op |-> "set_location", ev |-> e, ret |-> "unit",
                        calls |-> <<[fn |-> "CGEventSetLocation", h |-> h,
                                     point |-> point, arg |-> location]>>]
            /\ UNCHANGED <<wvars, tvars, imgs, bitmaps, seqs, width, evs, stream, crashed>>

\* Where CGWarpMouseCursorPosition(point) may leave the cursor: at the point,
\* or, for a point that is not one, where it was or at the origin.
Warped(point) ==
    IF is_finite(point.x) /\ is_finite(point.y) THEN {point} ELSE {cursor, CursorPoint}

\* mouse::warp_location(location)
mouse_warp_location(location) ==
    /\ ~crashed
    /\ LET point == CGPoint_from(width, location) IN
       /\ cursor' \in Warped(point)
       /\ last' = [op |-> "warp_location", ev |-> 0, arg |-> location, ret |-> "unit",
                   calls |-> <<[fn |-> "CGWarpMouseCursorPosition", point |-> point]>>]
    /\ UNCHANGED <<wvars, evars, iters, once, pc, procs, nsapps, apps, shares>>


\* ---------------------------------------------------------------------------
\* Inputs
\* ---------------------------------------------------------------------------
\* key_code::RETURN and key_code::SPACE
Return == 36
Space == 49

\* Flags the operating system may give a freshly created event.
InitialFlags == {{}, {NON_COALESCED}}

\* Scroll deltas and the arrays of them a caller may write (lengths 0 to 4).
Deltas == {-5, 20}
WheelInputs == UNION {[1..n -> Deltas] : n \in 0..4}

\* Mouse locations: exact on both targets, rounded on 32-bit targets,
\* overflowing on 32-bit targets, and not finite.
Locations ==
    { <<F(0), F(0)>>, <<F(4), F(2)>>, <<F(3), F(0)>>, <<F(-1), F(6)>>,
      <<F(5), F(-5)>>, <<NaN, F(0)>>, <<PosInf, NegInf>> }

\* ---------------------------------------------------------------------------
\* Specification of the event life cycle: construct, clone, use, drop
\* ---------------------------------------------------------------------------
\* The threads of the program, and a thread that is outside App::current().
Threads == 1..NThreads
Idle == [at |-> "idle", ref |-> NULL]

\* A thread that is outside launch and open_file.  Inside, `op` and `arg` are
\* the call, `file` and `app` the NSStrings it has made, `calls` the
\* messages it has sent so far.
NotCalling == [at |-> "idle", op |-> "none", arg |-> "none", file |-> NULL,
               app |-> NULL, calls |-> <<>>]

\* The processes the system runs, identified by pid_t values, and the state
\* of a process that was just launched.
Pids == {1, 2}
Launched == [hidden |-> FALSE, active |-> FALSE, terminated |-> FALSE]

\* Before the first call: the cursor rests at the origin, the static is not
\* initialised, no thread is inside App::current(), no wrapper exists.
InitWorld ==
    /\ cursor = CursorPoint
    /\ iters = <<>>
    /\ once = [state |-> "new", value |-> NULL, inits |-> 0]
    /\ pc = [t \in Threads |-> Idle]
    /\ procs = [p \in Pids |-> Launched]
    /\ nsapps = <<>>
    /\ apps = <<>>
    /\ shares = <<>>
    /\ wcursor = [x |-> 0, y |-> 0, set |-> None]
    /\ dcs = <<>>
    /\ buf = <<>>
    /\ spare = <<>>
    /\ strs = <<>>
    /\ workspace = "new"
    /\ calling = [t \in Threads |-> NotCalling]

Init ==
    /\ InitWorld
    /\ width = 64
    /\ objs = <<>>
    /\ evs = <<>>
    /\ stream = 0
    /\ crashed = FALSE
    /\ uaf = FALSE
    /\ imgs = <<>>
    /\ bitmaps = <<>>
    /\ seqs = <<>>
    /\ last = NoCall

\* Construction is by keyboard::Event::new; the other builders have their own
\* specifications below.
Next ==
    \/ \E ok \in BOOLEAN :
          /\ Len(evs) < MaxEvents
          /\ keyboard_Event_new(Return, TRUE, ok, {})
    \/ \E e \in LiveEvents, ok \in BOOLEAN :
          /\ Len(evs) < MaxEvents
          /\ Event_clone(e, ok)
    \/ \E e \in LiveEvents : Event_drop(e)
    \/ \E e \in LiveEvents :
          /\ stream < MaxPosts
          /\ Event_post(e, "Session")
    \/ \E e \in LiveEvents : Event_flags(e)
    \/ \E e \in LiveEvents, f \in {{}, {SHIFT}} : Event_set_flags(e, f)

Spec == Init /\ [][Next]_vars


\* ---------------------------------------------------------------------------
\* Properties of the event life cycle
\* ---------------------------------------------------------------------------
\* C1: reference-count symmetry.  No native event handle is ever released
\* twice, and once every wrapper (the constructed event and all its clones,
\* clones of clones included) has been dropped, every handle a create or copy
\* call returned has been released exactly once.
C1_RefCountSymmetry ==
    /\ \A h \in Handles : objs[h].rel <= 1
    /\ (evs # <<>> /\ LiveEvents = {}) => \A h \in Handles : objs[h].rel = 1

\* An event, a clone of it and a clone of the clone, on three handles, all
\* dropped.
C1_Witness ==
    /\ Len(evs) = 3 /\ Len(objs) = 3
    /\ evs[1].from = 0 /\ evs[2].from = 1 /\ evs[3].from = 2
    /\ LiveEvents = {}
    /\ \A h \in Handles : objs[h].rel = 1

\* The wrappers other than e that hold a native event.
Others(e) == {o \in 1..Len(evs) : o # e /\ evs[o].h # NULL}

\* C2: a clone is independent of its source.  Two wrappers never hold the same
\* native handle (the clone's comes from the native copy call), no native call
\* is ever issued on a released handle, and set_flags on one wrapper leaves the
\* flags of every other wrapper as they were.
C2_CloneIndependent ==
    /\ [](/\ \A e \in 1..Len(evs) : \A o \in Others(e) : evs[o].h # evs[e].h
          /\ ~uaf)
    /\ [][last'.op = "set_flags" =>
            \A o \in Others(last'.ev) :
                CGEventGetFlags(evs[o].h)' = CGEventGetFlags(evs[o].h)]_vars

\* A clone is posted after its source was dropped, and its flags differ from
\* those the source had.
C2_Witness ==
    /\ last.op = "post"
    /\ evs[last.ev].from = 1 /\ evs[last.ev].h # NULL
    /\ ~evs[1].live /\ evs[1].h # NULL
    /\ CGEventGetFlags(evs[last.ev].h) # CGEventGetFlags(evs[1].h)

\* C3: no wrapper holds a null handle (a native create or copy call that
\* returns NULL yields no wrapper).
C3_NoNullHandle == \A e \in 1..Len(evs) : evs[e].h # NULL


\* ---------------------------------------------------------------------------
\* Specification of flags and posting
\* ---------------------------------------------------------------------------
NextFlags ==
    \/ \E ok \in BOOLEAN, f0 \in InitialFlags :
          /\ Len(evs) < MaxFlagEvents
          /\ keyboard_Event_new(Space, FALSE, ok, f0)
    \/ /\ Len(evs) < MaxFlagEvents
       /\ mouse_Event_new("Left", "Down", <<F(4), F(2)>>, TRUE, {})
    \/ \E e \in LiveEvents :
          /\ Len(evs) < MaxFlagEvents
          /\ Event_clone(e, TRUE)
    \/ \E e \in LiveEvents, l \in EventLocations :
          /\ stream < MaxFlagPosts
          /\ Event_post(e, l)
    \/ \E e \in LiveEvents : Event_flags(e)
    \/ \E e \in LiveEvents, f \in EventFlags : Event_set_flags(e, f)
    \/ \E e \in LiveEvents, f \in EventFlags : Event_enable_flags(e, f)
    \/ \E e \in LiveEvents : mouse_Event_location(e)

SpecFlags == Init /\ [][NextFlags]_vars

\* Event::flags() as the caller of wrapper e observes it.
FlagsOf(e) == CGEventGetFlags(evs[e].h)

\* C7: round trip of flags.  Whatever happened to an event before (set_flags,
\* enable_flags, post, clone), right after set_flags(F) on it flags() is
\* exactly F.
C7_FlagsRoundTrip ==
    (last.op = "set_flags" /\ evs[last.ev].h # NULL) =>
        FlagsOf(last.ev) = last.calls[1].arg

\* set_flags({}) on a clone that has been posted, made of an event whose flags
\* were not empty.
C7_Witness ==
    /\ last.op = "set_flags" /\ evs[last.ev].h # NULL
    /\ last.calls[1].arg = {}
    /\ evs[last.ev].from = 1 /\ evs[1].h # NULL /\ FlagsOf(1) = {SHIFT, NON_COALESCED}
    /\ stream = MaxFlagPosts

\* C8: idempotent posting.  A post submits the event exactly once to the
\* event stream and changes neither the wrapper nor any native event: the
\* event stays usable, and its flags and its location are what they were.
C8_PostIdempotent ==
    [][(last'.op = "post" /\ evs[last'.ev].h # NULL) =>
          /\ evs' = evs
          /\ objs' = objs
          /\ stream' = stream + 1
          /\ Len(last'.calls) = 1
          /\ last'.calls[1].fn = "CGEventPost"
          /\ last'.calls[1].h = evs[last'.ev].h]_vars

\* The only event there is, a mouse event, has been posted twice.
C8_Witness ==
    /\ last.op = "post"
    /\ stream = 2
    /\ Len(evs) = 1 /\ evs[1].cls = "mouse" /\ evs[1].live /\ evs[1].h # NULL
    /\ last.calls[1].flags = FlagsOf(1)
    /\ last.calls[1].loc = CGEventGetLocation(evs[1].h)

\* C21: enable_flags(F) leaves the event's flags equal to the flags before
\* OR F.  It clears no bit that was set, applying it twice equals applying it
\* once, and enable_flags(F) followed by enable_flags(B) gives the flags of
\* the opposite order and of enable_flags(F OR B).
C21_EnableFlagsOr ==
    [][(last'.op = "enable_flags" /\ evs[last'.ev].h # NULL) =>
          LET h == evs[last'.ev].h
              set == last'.calls[2].arg
              before == objs[h].flags
              after == objs'[h].flags
          IN
          /\ after = before \cup set
          /\ before \subseteq after
          /\ last'.calls[2].flags = after
          /\ EnabledFlags(after, set) = after
          /\ \A B \in EventFlags :
                /\ EnabledFlags(EnabledFlags(before, set), B)
                      = EnabledFlags(EnabledFlags(before, B), set)
                /\ EnabledFlags(EnabledFlags(before, set), B)
                      = EnabledFlags(before, set \cup B)]_vars

\* enable_flags({SHIFT}) on an event whose flags were {NON_COALESCED}: both
\* bits are set now.
C21_Witness ==
    /\ last.op = "enable_flags" /\ evs[last.ev].h # NULL
    /\ last.calls[2].arg = {SHIFT}
    /\ FlagsOf(last.ev) = {SHIFT, NON_COALESCED}


\* ---------------------------------------------------------------------------
\* Specification of mouse events, on 32-bit and on 64-bit targets
\* ---------------------------------------------------------------------------
InitMouse ==
    /\ InitWorld
    /\ width \in {32, 64}
    /\ objs = <<>>
    /\ evs = <<>>
    /\ stream = 0
    /\ crashed = FALSE
    /\ uaf = FALSE
    /\ imgs = <<>>
    /\ bitmaps = <<>>
    /\ seqs = <<>>
    /\ last = NoCall

NextMouse ==
    \/ \E b \in Buttons, k \in EventKinds, l \in Locations, ok \in BOOLEAN :
          /\ Len(evs) < MaxMouseEvents
          /\ mouse_Event_new(b, k, l, ok, {})
    \/ \E e \in LiveEvents : mouse_Event_location(e)
    \/ \E e \in LiveEvents, l \in Locations : mouse_Event_set_location(e, l)
    \/ \E e \in LiveEvents : Event_drop(e)
    \/ \E l \in Locations : mouse_warp_location(l)

SpecMouse == InitMouse /\ [][NextMouse]_vars

\* The table of the mouse event types, by name of the native type.
C9_Table ==
    [p \in Buttons \X EventKinds |->
        CASE p = <<"Left", "Down">>     -> "LeftMouseDown"
          [] p = <<"Left", "Up">>       -> "LeftMouseUp"
          [] p = <<"Left", "Dragged">>  -> "LeftMouseDragged"
          [] p = <<"Right", "Down">>    -> "RightMouseDown"
          [] p = <<"Right", "Up">>      -> "RightMouseUp"
          [] p = <<"Right", "Dragged">> -> "RightMouseDragged"
          [] p = <<"Left", "Moved">>    -> "MouseMoved"
          [] p = <<"Right", "Moved">>   -> "MouseMoved"]

\* C9: mouse event type mapping.  The native type mouse::Event::new passes to
\* CGEventCreateMouseEvent is the one the table gives for (button, kind), and
\* two different pairs select the same native type only if both are Moved.
C9_MouseTypeMapping ==
    /\ last.op = "mouse::Event::new" =>
          CGEventType[last.calls[1].mouse_type + 1]
              = C9_Table[<<last.calls[1].arg[1], last.calls[1].arg[2]>>]
    /\ \A p, q \in Buttons \X EventKinds :
          (p # q /\ CGEventTypeCode(CGEventType_from(p[1], p[2]))
                      = CGEventTypeCode(CGEventType_from(q[1], q[2])))
              => (p[2] = "Moved" /\ q[2] = "Moved")

\* A mouse event was built for (Left, Moved) with the native type MouseMoved.
C9_Witness ==
    /\ last.op = "mouse::Event::new"
    /\ last.calls[1].arg[1] = "Left" /\ last.calls[1].arg[2] = "Moved"
    /\ last.calls[1].mouse_type = 5
    /\ last.ret # NULL

\* A double that the native coordinate type of a w-bit target holds exactly.
Representable(w, x) ==
    /\ is_finite(x)
    /\ w = 64 \/ (Abs(x.v) % F32Step = 0 /\ Abs(x.v) <= F32Max)

\* mouse::Event::location() as the caller of wrapper e observes it.
LocationOf(e) == LocationOfPoint(CGEventGetLocation(evs[e].h))

\* C10: location round trip.  For a finite location L that the native
\* coordinate type represents, location() is L right after set_location(L)
\* and right after mouse::Event::new(button, kind, L).
C10_LocationRoundTrip ==
    /\ (/\ last.op = "set_location" /\ evs[last.ev].h # NULL
        /\ \A i \in 1..2 : Representable(width, last.calls[1].arg[i]))
           => LocationOf(last.ev) = last.calls[1].arg
    /\ (/\ last.op = "mouse::Event::new" /\ last.ret # NULL
        /\ \A i \in 1..2 : Representable(width, last.calls[1].arg[3][i]))
           => LocationOf(last.ev) = last.calls[1].arg[3]

\* On a 32-bit target, set_location((4, 2)) on an event built elsewhere.
C10_Witness ==
    /\ width = 32
    /\ last.op = "set_location" /\ evs[last.ev].h # NULL
    /\ last.calls[1].arg = <<F(4), F(2)>>
    /\ LocationOf(last.ev) = <<F(4), F(2)>>

\* C19: warp_location, mouse::Event::new and set_location guard against
\* degenerate input: no native call they issue receives a coordinate that is
\* NaN, +infinity or -infinity.
C19_FiniteNativeArgs ==
    last.op \in {"warp_location", "mouse::Event::new", "set_location"} =>
        \A i \in 1..Len(last.calls) :
            last.calls[i].fn \in {"CGWarpMouseCursorPosition", "CGEventCreateMouseEvent",
                                   "CGEventSetLocation"}
                /\ (last.calls[i].fn = "CGEventSetLocation" => last.calls[i].h # NULL)
                => /\ is_finite(last.calls[i].point.x)
                   /\ is_finite(last.calls[i].point.y)

\* ---------------------------------------------------------------------------
\* Specification of wheel events
\* ---------------------------------------------------------------------------
NextWheel ==
    \/ \E u \in ScrollUnits, w \in WheelInputs, ok \in BOOLEAN :
          /\ Len(evs) < MaxWheelEvents
          /\ wheel_Event_new(u, w, ok, {})
    \/ \E e \in LiveEvents :
          /\ stream < MaxPosts
          /\ Event_post(e, "Hid")
    \/ \E e \in LiveEvents : Event_drop(e)

SpecWheel == Init /\ [][NextWheel]_vars

\* C6: wheel count validation.  Whenever wheel::Event::new reaches the native
\* constructor, the wheel count it passes is 1, 2 or 3 and is the number of
\* deltas the caller supplied, and the deltas passed are exactly those, in
\* order; the constructor always reaches the native call (it never panics on
\* an index).  Arrays of 0 or of 4 and more deltas are not accepted at all.
C6_WheelCount ==
    last.op = "wheel::Event::new" =>
        /\ Len(last.calls) = 1
        /\ last.calls[1].fn = "CGEventCreateScrollWheelEvent"
        /\ last.calls[1].wheelCount \in {1, 2, 3}
        /\ last.calls[1].wheelCount = Len(last.calls[1].arg)
        /\ last.calls[1].wheels = last.calls[1].arg

\* A wheel event was built from three deltas.
C6_Witness ==
    /\ last.op = "wheel::Event::new"
    /\ last.calls[1].arg = <<-5, 20, -5>>
    /\ last.calls[1].wheelCount = 3
    /\ last.ret # NULL


\* ---------------------------------------------------------------------------
\* Pixel sampler (screen.rs): Display::color_at, Display::colors, Colors
\* ---------------------------------------------------------------------------
\* Color components are counted in steps of 1/ComponentDen: 0 is 0.0 and
\* ComponentDen is 1.0.
ComponentDen == 2
Components == 0..ComponentDen

\* `c as u8` for a component in [0, 1]: the fraction is cut off.
as_u8(c) == c \div ComponentDen

\* Display::main()
MainDisplay == 1

LiveSeqs == {s \in 1..Len(seqs) : seqs[s].live}

\* CGRect::new(x, y, width, height)
CGRect_new(x, y, w, h) ==
    [origin |-> [x |-> x, y |-> y], size |-> [width |-> w, height |-> h]]

\* NSObject::alloc(&NS_BITMAP): the bitmaps after one more was allocated.
NSObject_alloc == Append(bitmaps, [rel |-> 0, image |-> NULL])

\* A drop that releases twice.
NSObject_drop_Twice(bm, b) == [bm EXCEPT ![b].rel = @ + 2]

\* impl Drop for NSObject: msg_send![ptr, release]
NSObject_drop(bm, b) == [bm EXCEPT ![b].rel = @ + 1]

\* impl Drop for CGImage: CGImageRelease(self.0)
CGImage_drop(im, i) == [im EXCEPT ![i].rel = @ + 1]

\* The images after msg_send![bitmap, initWithCGImage:image].  The CGImage is
\* moved into the argument tuple of the message and from there into the
\* native function, so no destructor of it runs in Colors::next.
ImageSent(im, i) == im

\* A guard that lets a position through when one coordinate is finite.
PosIsFinite_Or(x, y) == is_finite(x) \/ is_finite(y)

\* x.is_finite() && y.is_finite()
PosIsFinite(x, y) == is_finite(x) /\ is_finite(y)

\* A sampler that looks where the cursor rests at start, whatever `pos` is.
SamplePos_Origin(c) == <<CursorPoint.x, CursorPoint.y>>

\* let (x, y) = self.pos
SamplePos(c) == c.pos

\* An advance that draws into the first bitmap ever allocated.
BitmapUsed_First(c) == 1

\* let bitmap = self.bitmap.inner()
BitmapUsed(c) == c.bitmap

\* The body of Colors::next for the iterator value c: what it returns, the
\* native calls it issues, and the image it captured (NULL if none).  The
\* display hands out an image or not (img_ok) and px are the components of
\* the pixel.
NextOutcome(c, img_ok, px) ==
    LET x == SamplePos(c)[1]
        y == SamplePos(c)[2]
    IN
    IF ~PosIsFinite(x, y)
    THEN [ret |-> None, calls |-> <<>>, image |-> NULL]
    ELSE LET disp == c.display
             rect == CGRect_new(as_CGFloat(width, x), as_CGFloat(width, y), F(1), F(1))
             image == IF img_ok THEN Len(imgs) + 1 ELSE NULL
             capture == [fn |-> "CGDisplayCreateImageForRect", display |-> disp,
                         rect |-> rect, ret |-> image]
         IN
         IF image = NULL
         THEN [ret |-> None, calls |-> <<capture>>, image |-> NULL]
         ELSE [ret |-> Some([red |-> as_u8(px[1]), green |-> as_u8(px[2]),
                             blue |-> as_u8(px[3])]),
               calls |-> <<capture,
                           [fn |-> "initWithCGImage:", bitmap |-> BitmapUsed(c), image |-> image],
                           [fn |-> "colorAtX:y:", bitmap |-> BitmapUsed(c), x |-> 0, y |-> 0],
                           [fn |-> "getRed:green:blue:alpha:", px |-> px]>>,
               image |-> image]

\* The images after the body of Colors::next ran with outcome o.
ImagesAfter(o) ==
    IF o.image = NULL THEN imgs ELSE ImageSent(Append(imgs, [rel |-> 0]), o.image)

\* Colors::new(display, pos), reached through Display::colors.  `none_seen`
\* is not a field of Colors: it remembers that an advance returned no color.
Colors_new(display, pos) ==
    /\ ~crashed
    /\ bitmaps' = NSObject_alloc
    /\ seqs' = Append(seqs, [bitmap |-> Len(bitmaps'), display |-> display,
                             pos |-> pos, live |-> TRUE, none_seen |-> FALSE])
    /\ last' = [op |-> "colors", ev |-> Len(seqs'), arg |-> <<display, pos>>,
                ret |-> Len(seqs'),
                calls |-> <<[fn |-> "alloc", ret |-> Len(bitmaps')]>>]
    /\ UNCHANGED <<wvars, tvars, width, objs, evs, stream, crashed, uaf, imgs>>

\* <Colors as Iterator>::next
Colors_next(s, img_ok, px) ==
    /\ ~crashed
    /\ s \in LiveSeqs
    /\ LET o == NextOutcome(seqs[s], img_ok, px) IN
       /\ imgs' = ImagesAfter(o)
       /\ bitmaps' = IF o.image = NULL THEN bitmaps
                     ELSE [bitmaps EXCEPT ![BitmapUsed(seqs[s])].image = o.image]
       /\ seqs' = [seqs EXCEPT ![s].none_seen = @ \/ ~o.ret.some]
       /\ last' = [op |-> "next", ev |-> s, arg |-> <<seqs[s].display, seqs[s].pos>>,
                   ret |-> o.ret, calls |-> o.calls]
    /\ UNCHANGED <<wvars, tvars, width, objs, evs, stream, crashed, uaf>>

\* Assignment to the public field `pos` of a Colors value.
Colors_set_pos(s, pos) ==
    /\ ~crashed
    /\ s \in LiveSeqs
    /\ seqs' = [seqs EXCEPT ![s].pos = pos]
    /\ last' = [op |-> "set_pos", ev |-> s, arg |-> <<seqs[s].display, pos>>,
                ret |-> "unit", calls |-> <<>>]
    /\ UNCHANGED <<wvars, tvars, width, objs, evs, stream, crashed, uaf, imgs, bitmaps>>

\* Assignment to the public field `display` of a Colors value.
Colors_set_display(s, display) ==
    /\ ~crashed
    /\ s \in LiveSeqs
    /\ seqs' = [seqs EXCEPT ![s].display = display]
    /\ last' = [op |-> "set_display", ev |-> s, arg |-> <<display, seqs[s].pos>>,
                ret |-> "unit", calls |-> <<>>]
    /\ UNCHANGED <<wvars, tvars, width, objs, evs, stream, crashed, uaf, imgs, bitmaps>>

\* Drop of a Colors value: drops its bitmap.
Colors_drop(s) ==
    /\ ~crashed
    /\ s \in LiveSeqs
    /\ seqs' = [seqs EXCEPT ![s].live = FALSE]
    /\ bitmaps' = NSObject_drop(bitmaps, seqs[s].bitmap)
    /\ last' = [op |-> "drop_colors", ev |-> s, arg |-> <<seqs[s].display, seqs[s].pos>>,
                ret |-> "unit",
                calls |-> <<[fn |-> ReleaseFn("NSObject"), bitmap |-> seqs[s].bitmap]>>]
    /\ UNCHANGED <<wvars, tvars, width, objs, evs, stream, crashed, uaf, imgs>>

\* Display::color_at(pos): self.colors(pos).next(), the temporary Colors being
\* dropped at the end of the statement.
Display_color_at(display, pos, img_ok, px) ==
    /\ ~crashed
    /\ LET b == Len(bitmaps) + 1
           c == [bitmap |-> b, display |-> display, pos |-> pos, live |-> TRUE,
                 none_seen |-> FALSE]
           o == NextOutcome(c, img_ok, px)
       IN
       /\ imgs' = ImagesAfter(o)
       /\ bitmaps' = NSObject_drop([NSObject_alloc EXCEPT ![b].image = o.image], b)
       /\ last' = [op |-> "color_at", ev |-> 0, arg |-> <<display, pos>>, ret |-> o.ret,
                   calls |-> <<[fn |-> "alloc", ret |-> b]>> \o o.calls
                             \o <<[fn |-> ReleaseFn("NSObject"), bitmap |-> b]>>]
    /\ UNCHANGED <<wvars, tvars, width, objs, evs, stream, crashed, uaf, seqs>>

\* Positions a caller may sample at, and pixels the screen may show.
Positions == {<<F(0), F(0)>>, <<F(4), F(2)>>, <<NaN, F(0)>>, <<F(3), NegInf>>}
Pixels == {<<0, 1, ComponentDen>>, <<ComponentDen, 0, 0>>}

NextColors ==
    \/ \E p \in Positions :
          /\ Len(bitmaps) < MaxColors
          /\ Colors_new(MainDisplay, p)
    \/ \E s \in LiveSeqs, ok \in BOOLEAN, px \in Pixels :
          /\ ok => Len(imgs) < MaxImages
          /\ Colors_next(s, ok, px)
    \/ \E s \in LiveSeqs, p \in Positions : Colors_set_pos(s, p)
    \/ \E s \in LiveSeqs : Colors_drop(s)
    \/ \E p \in Positions, ok \in BOOLEAN, px \in Pixels :
          /\ ok => Len(imgs) < MaxImages
          /\ Len(bitmaps) < MaxColors
          /\ Display_color_at(MainDisplay, p, ok, px)

SpecColors == Init /\ [][NextColors]_vars

\* Positions a caller may move a sequence to: single-precision values,
\* doubles that a 32-bit build rounds or turns into an infinity, and
\* positions that are none.
MovedPositions == Positions \cup {<<F(3), F(0)>>, <<F(5), F(-5)>>}

\* The displays a caller samples: the main display and one more.
SampledDisplays == {MainDisplay, MainDisplay + 1}

\* Sequences whose public fields the caller reassigns between advances, on
\* both builds: CGFloat is a double (width 64) or a single (width 32).
NextSample ==
    \/ \E p \in Positions :
          /\ Len(bitmaps) < MaxSamplers
          /\ Colors_new(MainDisplay, p)
    \/ \E s \in LiveSeqs, ok \in BOOLEAN, px \in Pixels :
          /\ ok => Len(imgs) < MaxImages
          /\ Colors_next(s, ok, px)
    \/ \E s \in LiveSeqs, p \in MovedPositions : Colors_set_pos(s, p)
    \/ \E s \in LiveSeqs, d \in SampledDisplays : Colors_set_display(s, d)

SpecSample == InitMouse /\ [][NextSample]_vars

\* The native calls of the last API call that went to the function fn.
CallsTo(fn) == {i \in 1..Len(last.calls) : last.calls[i].fn = fn}

\* C4: every image the display-capture call returned has been released exactly
\* once by the time the sampling call that obtained it has returned.
C4_ImagesReleased == \A i \in 1..Len(imgs) : imgs[i].rel = 1

\* C5: non-finite coordinate safety.  A sample at a position whose x or y is
\* NaN or an infinity returns no color and issues no display-capture call.
C5_NonFinite ==
    (/\ last.op \in {"next", "color_at"}
     /\ \E i \in 1..2 : ~is_finite(last.arg[2][i]))
        => /\ last.ret = None
           /\ CallsTo("CGDisplayCreateImageForRect") = {}

\* color_at at (3, -infinity) returned no color, after an advance at a finite
\* position had captured an image.
C5_Witness ==
    /\ last.op = "color_at"
    /\ last.arg[2] = <<F(3), NegInf>>
    /\ last.ret = None
    /\ Len(imgs) >= 1


\* C15 as claimed: each advance of a Colors iterator samples at the `pos` and
\* `display` the iterator has at that moment: at a finite pos it captures
\* the 1x1 rectangle at pos on display, once.  An advance that returned no
\* color does not end the sequence: whenever the capture hands out an image,
\* the advance returns a color, also after earlier advances returned none.
C15_SamplesCurrentPos ==
    last.op = "next" =>
        LET c == seqs[last.ev] IN
        PosIsFinite(c.pos[1], c.pos[2]) =>
            /\ Cardinality(CallsTo("CGDisplayCreateImageForRect")) = 1
            /\ last.calls[1].fn = "CGDisplayCreateImageForRect"
            /\ last.calls[1].display = c.display
            /\ last.calls[1].rect = CGRect_new(c.pos[1], c.pos[2], F(1), F(1))
            /\ last.calls[1].ret # NULL => last.ret.some

\* o is the native coordinate of the finite double v: v itself where the
\* native coordinate is a double; otherwise a single-precision value nearest
\* to v, or the infinity of v's sign when no finite single-precision value
\* lies within half a step of v.
NativeCoordinate(v, o) ==
    IF width = 64 THEN o = v
    ELSE \/ /\ o.k = "fin"
            /\ o.v % F32Step = 0
            /\ Abs(o.v) <= F32Max
            /\ 2 * Abs(o.v - v.v) <= F32Step
         \/ /\ o.k = "inf"
            /\ o.v * v.v > 0
            /\ \A g \in 0..F32Max :
                  g % F32Step = 0 => 2 * Abs(g - Abs(v.v)) >= F32Step

\* C15 as the code has it: each advance samples at the `pos` and `display`
\* the iterator has at that moment: at a finite pos it issues one capture, on
\* display, of the rectangle of size 1x1 whose origin is pos in native
\* coordinates (pos itself on a 64-bit build; on a 32-bit build pos rounded
\* to single precision, an infinity beyond its range).  An advance that
\* returned no color does not end the sequence: whenever the capture hands
\* out an image, the advance returns a color.
C15_SamplesNativePos ==
    last.op = "next" =>
        LET c == seqs[last.ev] IN
        PosIsFinite(c.pos[1], c.pos[2]) =>
            /\ Cardinality(CallsTo("CGDisplayCreateImageForRect")) = 1
            /\ last.calls[1].fn = "CGDisplayCreateImageForRect"
            /\ last.calls[1].display = c.display
            /\ NativeCoordinate(c.pos[1], last.calls[1].rect.origin.x)
            /\ NativeCoordinate(c.pos[2], last.calls[1].rect.origin.y)
            /\ last.calls[1].rect.size = [width |-> F(1), height |-> F(1)]
            /\ last.calls[1].ret # NULL => last.ret.some

\* On a 32-bit build, an iterator had returned no color; its pos was then set
\* to (3, 0), which is no single-precision value, and its display is the
\* second one: the advance captured at (2, 0) on that display and returned a
\* color.
C15_Witness ==
    /\ width = 32
    /\ last.op = "next"
    /\ seqs[last.ev].none_seen
    /\ seqs[last.ev].pos = <<F(3), F(0)>>
    /\ last.arg[1] = MainDisplay + 1
    /\ seqs[last.ev].display = MainDisplay + 1
    /\ last.calls[1].display = MainDisplay + 1
    /\ last.calls[1].rect.origin = [x |-> F(2), y |-> F(0)]
    /\ last.ret.some

\* The bitmaps other than b are as they were.
OthersKept(b) ==
    \A o \in 1..Len(bitmaps) : o # b => bitmaps'[o] = bitmaps[o]

\* C26: a Colors sequence constructs its bitmap once, at creation, and reuses
\* it for every advance: creation allocates exactly one bitmap; an advance
\* (returning a color or none) allocates none, releases none and draws only
\* into the bitmap of its sequence; a change of pos touches no bitmap; the
\* drop releases that bitmap, once.  color_at allocates exactly one bitmap
\* and releases it once, whatever it returns.
C26_BitmapOnce ==
    /\ [](/\ \A q \in 1..Len(seqs) :
                /\ seqs[q].bitmap \in 1..Len(bitmaps)
                /\ bitmaps[seqs[q].bitmap].rel = (IF seqs[q].live THEN 0 ELSE 1)
                /\ \A r \in 1..Len(seqs) : r # q => seqs[r].bitmap # seqs[q].bitmap
          /\ \A b \in 1..Len(bitmaps) : bitmaps[b].rel <= 1)
    /\ [][/\ last'.op = "colors" =>
                /\ Len(bitmaps') = Len(bitmaps) + 1
                /\ OthersKept(0)
                /\ seqs'[last'.ev].bitmap = Len(bitmaps')
                /\ Cardinality(CallsTo("alloc")') = 1
                /\ CallsTo("release")' = {}
          /\ last'.op = "next" =>
                /\ Len(bitmaps') = Len(bitmaps)
                /\ OthersKept(seqs[last'.ev].bitmap)
                /\ bitmaps'[seqs[last'.ev].bitmap].rel = 0
                /\ CallsTo("alloc")' = {} /\ CallsTo("release")' = {}
                /\ \A i \in CallsTo("initWithCGImage:")' \cup CallsTo("colorAtX:y:")' :
                      last'.calls[i].bitmap = seqs[last'.ev].bitmap
          /\ last'.op = "set_pos" => bitmaps' = bitmaps /\ last'.calls = <<>>
          /\ last'.op = "drop_colors" =>
                /\ Len(bitmaps') = Len(bitmaps)
                /\ OthersKept(seqs[last'.ev].bitmap)
                /\ last'.calls = <<[fn |-> "release", bitmap |-> seqs[last'.ev].bitmap]>>
          /\ last'.op = "color_at" =>
                /\ Len(bitmaps') = Len(bitmaps) + 1
                /\ OthersKept(0)
                /\ bitmaps'[Len(bitmaps')].rel = 1
                /\ Cardinality(CallsTo("alloc")') = 1
                /\ Cardinality(CallsTo("release")') = 1
                /\ \A i \in CallsTo("release")' : last'.calls[i].bitmap = Len(bitmaps')
                /\ \A i \in CallsTo("initWithCGImage:")' \cup CallsTo("colorAtX:y:")' :
                      last'.calls[i].bitmap = Len(bitmaps')
         ]_vars

\* The second of two sequences returned a color and returned none, both with
\* its own bitmap, and was dropped: that bitmap holds the captured image and
\* is released once, while the first sequence and its bitmap live on.
C26_Witness ==
    /\ last.op = "drop_colors" /\ last.ev = 2
    /\ seqs[2].none_seen
    /\ bitmaps[seqs[2].bitmap].image # NULL
    /\ bitmaps[seqs[2].bitmap].rel = 1
    /\ seqs[1].live /\ bitmaps[seqs[1].bitmap].rel = 0

\* color.rs: the ratio of the byte scale to the unit scale.
FLOAT_RATIO == 255

\* <f64 as RgbComponent>::normalized: self.max(0.0).min(1.0)
normalized(c) == IF c < 0 THEN 0 ELSE IF c > ComponentDen THEN ComponentDen ELSE c

\* <f64 as RgbComponent>::into_byte: (self.normalized() * FLOAT_RATIO) as u8
into_byte(c) == (normalized(c) * FLOAT_RATIO) \div ComponentDen

\* The components the bitmap reported to the last sampling call.
NativePixel ==
    last.calls[CHOOSE i \in CallsTo("getRed:green:blue:alpha:") : TRUE].px

\* C16: the color a sample returns is the native pixel on the byte scale.
\* Each channel is the byte for c * 255 of the native component c in [0, 1]:
\* 0.0 is returned as 0 and a saturated channel, 1.0, as 255.
C16_ByteScale ==
    (last.op \in {"next", "color_at"} /\ last.ret.some) =>
        last.ret.v = [red |-> into_byte(NativePixel[1]),
                      green |-> into_byte(NativePixel[2]),
                      blue |-> into_byte(NativePixel[3])]

\* ---------------------------------------------------------------------------
\* Application handles (app.rs): App::from_pid, set_hidden, activate,
\* terminate, and the drop of an App
\* ---------------------------------------------------------------------------
LiveApps == {a \in 1..Len(apps) : apps[a].live}

\* ActivationOptions
ALL_WINDOWS == 1
IGNORING_OTHER_APPS == 2
ActivationOptions == SUBSET {ALL_WINDOWS, IGNORING_OTHER_APPS}

\* What [NSRunningApplication runningApplicationWithProcessIdentifier:pid]
\* answers: a new reference to the object of a running process, or nil.
LookupFinds(pid) == pid \in DOMAIN procs /\ ~procs[pid].terminated

\* The native objects after a message that returned the object h of process
\* pid (nil: none was returned).  The message is a getter: it hands out a
\* reference the caller does not own (`own` counts the references acquired
\* by alloc, copy or retain; `rel` the releases sent).
Referenced(h, pid) ==
    IF h = NULL THEN nsapps
    ELSE Append(nsapps, [pid |-> pid, own |-> 0, rel |-> 0])

\* An App around whatever pointer the lookup returned.
OptionApp_Wrapped(h) == Some(h)

\* Option<App> read from the pointer a message returned: App holds a NonNull,
\* so nil is None and every other pointer is Some(App).
OptionApp(h) == IF h = NULL THEN None ELSE Some(h)

\* The wrappers after an Option<App> was handed to the caller.  A wrapper
\* held by a static is never dropped.
Wrapped(o, static) ==
    IF o.some THEN Append(apps, [h |-> o.v, live |-> TRUE, static |-> static])
    ELSE apps

\* App::from_pid(pid)
App_from_pid(pid) ==
    /\ ~crashed
    /\ LET h == IF LookupFinds(pid) THEN Len(nsapps) + 1 ELSE NULL
           o == OptionApp(h)
       IN
       /\ nsapps' = Referenced(h, pid)
       /\ apps' = Wrapped(o, FALSE)
       /\ last' = [op |-> "from_pid", ev |-> IF o.some THEN Len(apps') ELSE 0,
                   arg |-> pid, ret |-> o,
                   calls |-> <<[fn |-> "runningApplicationWithProcessIdentifier:",
                                pid |-> pid, ret |-> h]>>]
    /\ UNCHANGED <<wvars, evars, cursor, iters, once, pc, procs, shares>>

\* The process a wrapper's object stands for (none for nil).
ProcessOf(a) == IF apps[a].h = NULL THEN NULL ELSE nsapps[apps[a].h].pid

\* The processes after the OS took a request for process pid and answered ok:
\* what a granted request changes, by selector.  A message to nil does nothing.
Requested(sel, pid, ok) ==
    IF ~ok \/ pid = NULL THEN procs
    ELSE CASE sel = "hide" -> [procs EXCEPT ![pid].hidden = TRUE]
           [] sel = "unhide" -> [procs EXCEPT ![pid].hidden = FALSE]
           [] sel = "activateWithOptions:" ->
                 [p \in DOMAIN procs |-> [procs[p] EXCEPT !.active = (p = pid)]]
           [] sel \in {"terminate", "forceTerminate"} ->
                 [procs EXCEPT ![pid].terminated = TRUE]

\* The OS grants no request for nil or for a process that has exited.
MayGrant(a, ok) == ok => (ProcessOf(a) # NULL /\ ~procs[ProcessOf(a)].terminated)

\* if hide { msg_send![self.0, hide] } else { msg_send![self.0, unhide] }
HiddenSelector(hide) == IF hide THEN "hide" ELSE "unhide"

\* App::set_hidden(hide)
App_set_hidden(a, hide, ok) ==
    /\ ~crashed
    /\ a \in LiveApps
    /\ MayGrant(a, ok)
    /\ LET sel == HiddenSelector(hide) IN
       /\ procs' = Requested(sel, ProcessOf(a), ok)
       /\ last' = [op |-> "set_hidden", ev |-> a, arg |-> hide, ret |-> ok,
                   calls |-> <<[fn |-> sel, h |-> apps[a].h, ret |-> ok]>>]
    /\ UNCHANGED <<wvars, evars, cursor, iters, once, pc, nsapps, apps, shares>>

\* App::activate(options)
App_activate(a, options, ok) ==
    /\ ~crashed
    /\ a \in LiveApps
    /\ MayGrant(a, ok)
    /\ procs' = Requested("activateWithOptions:", ProcessOf(a), ok)
    /\ last' = [op |-> "activate", ev |-> a, arg |-> options, ret |-> ok,
                calls |-> <<[fn |-> "activateWithOptions:", h |-> apps[a].h,
                             options |-> options, ret |-> ok]>>]
    /\ UNCHANGED <<wvars, evars, cursor, iters, once, pc, nsapps, apps, shares>>

\* A terminate that always forces.
TerminateSelector_Forced(force) == "forceTerminate"

\* if force { msg_send![self.0, forceTerminate] } else { msg_send![self.0, terminate] }
TerminateSelector(force) == IF force THEN "forceTerminate" ELSE "terminate"

\* App::terminate(force)
App_terminate(a, force, ok) ==
    /\ ~crashed
    /\ a \in LiveApps
    /\ MayGrant(a, ok)
    /\ LET sel == TerminateSelector(force) IN
       /\ procs' = Requested(sel, ProcessOf(a), ok)
       /\ last' = [op |-> "terminate", ev |-> a, arg |-> force, ret |-> ok,
                   calls |-> <<[fn |-> sel, h |-> apps[a].h, ret |-> ok]>>]
    /\ UNCHANGED <<wvars, evars, cursor, iters, once, pc, nsapps, apps, shares>>

\* Drop of an App the caller owns: drops its NSObject.
App_drop(a) ==
    /\ ~crashed
    /\ a \in LiveApps
    /\ ~apps[a].static
    /\ apps' = [apps EXCEPT ![a].live = FALSE]
    /\ nsapps' = IF apps[a].h = NULL THEN nsapps ELSE NSObject_drop(nsapps, apps[a].h)
    /\ last' = [op |-> "drop_app", ev |-> a, arg |-> ProcessOf(a), ret |-> "unit",
                calls |-> <<[fn |-> ReleaseFn("NSObject"), h |-> apps[a].h]>>]
    /\ UNCHANGED <<wvars, evars, cursor, iters, once, pc, procs, shares>>


\* What [app processIdentifier] answers is -1 for an application without a
\* process identifier: `-1 => None, id => Some(id)`.
OptionPid(id) == IF id = -1 THEN None ELSE Some(id)

\* App::pid().  `known`: the application has a process identifier.
App_pid(a, known) ==
    /\ ~crashed
    /\ a \in LiveApps
    /\ apps[a].h # NULL
    /\ LET id == IF known THEN ProcessOf(a) ELSE -1 IN
       last' = [op |-> "pid", ev |-> a, arg |-> ProcessOf(a), ret |-> OptionPid(id),
                calls |-> <<[fn |-> "processIdentifier", h |-> apps[a].h, ret |-> id]>>]
    /\ UNCHANGED <<wvars, evars, tvars>>

\* The NSString objects after the getter `sel` of application object `of`
\* returned one (nil: none): a reference the caller does not own.
StringReturned(sel, of, ok) ==
    IF ok THEN Append(strs, [sel |-> sel, of |-> of, own |-> 0, rel |-> 0]) ELSE strs

\* str_to_ns_string(s): [NSString stringWithUTF8String:utf8], a reference
\* the caller does not own, wrapped in an NSObject.  (CString::new(s).unwrap()
\* panics before the message for a string with a NUL inside.)
str_to_ns_string(ss) == Append(ss, [sel |-> "stringWithUTF8String:", of |-> NULL,
                                    own |-> 0, rel |-> 0])

\* The processes after the workspace started one more application: it runs
\* under the next process identifier and is the active one.
Started ==
    LET new == (CHOOSE p \in DOMAIN procs : \A q \in DOMAIN procs : q <= p) + 1 IN
    [p \in DOMAIN procs \cup {new} |->
        IF p = new THEN [Launched EXCEPT !.active = TRUE]
        ELSE [procs[p] EXCEPT !.active = FALSE]]

\* A launch may start a process while fewer than MaxLaunches were started.
MayStart(started) == started => Cardinality(DOMAIN procs) < Cardinality(Pids) + MaxLaunches

\* An initialiser any thread may enter until one of them has finished.
MayRunInit_Racy(state) == state # "done"

\* lazy_static!: the initialiser is entered by the first thread to
\* dereference the static, and by no other.
MayRunInit(state) == state = "new"

\* The message the initialiser of NS_WORKSPACE_SHARED sends; a dereference
\* of the initialised static sends nothing.
NS_WORKSPACE_SHARED(ws) ==
    IF ws = "new" THEN <<[fn |-> "sharedWorkspace"]>> ELSE <<>>

\* What launch and open_file leave alone.
CallFrame ==
    UNCHANGED <<evars, wcursor, dcs, buf, spare, cursor, iters, once, pc, nsapps,
                apps, shares>>

\* app::launch(app), up to the dereference of NS_WORKSPACE_SHARED:
\* str_to_ns_string(app.into()).  `nul`: the name has a NUL inside, and
\* CString::new(s).unwrap() panics before any message.
app_launch(t, nul) ==
    /\ ~crashed
    /\ calling[t].at = "idle"
    /\ IF nul
       THEN /\ last' = [op |-> "launch", ev |-> 0, by |-> t, arg |-> nul,
                        ret |-> "panic", calls |-> <<>>]
            /\ UNCHANGED <<strs, calling>>
       ELSE /\ strs' = str_to_ns_string(strs)
            /\ calling' = [calling EXCEPT ![t] =
                  [at |-> "deref", op |-> "launch", arg |-> nul, file |-> NULL,
                   app |-> Len(strs'),
                   calls |-> <<[fn |-> "stringWithUTF8String:", ret |-> Len(strs')]>>]]
            /\ UNCHANGED last
    /\ UNCHANGED <<procs, workspace>>
    /\ CallFrame

\* app::open_file(path, app_name), its first statement:
\* str_to_ns_string(path.into()).  `named`: an application name was given;
\* `nul`: which string has a NUL inside ("none", "path" or "app").
app_open_file(t, named, nul) ==
    /\ ~crashed
    /\ calling[t].at = "idle"
    /\ nul = "app" => named
    /\ IF nul = "path"
       THEN /\ last' = [op |-> "open_file", ev |-> 0, by |-> t, arg |-> <<named, nul>>,
                        ret |-> "panic", calls |-> <<>>]
            /\ UNCHANGED <<strs, calling>>
       ELSE /\ strs' = str_to_ns_string(strs)
            /\ calling' = [calling EXCEPT ![t] =
                  [at |-> IF named THEN "name" ELSE "deref", op |-> "open_file",
                   arg |-> <<named, nul>>, file |-> Len(strs'), app |-> NULL,
                   calls |-> <<[fn |-> "stringWithUTF8String:", ret |-> Len(strs')]>>]]
            /\ UNCHANGED last
    /\ UNCHANGED <<procs, workspace>>
    /\ CallFrame

\* open_file, its second statement for Some(s):
\* app_name.into().map(|s| str_to_ns_string(s.into())).  A panic on the
\* application name unwinds through `file`, which is dropped: its NSObject
\* sends release.
app_open_file_name(t) ==
    /\ ~crashed
    /\ calling[t].at = "name"
    /\ LET c == calling[t] IN
       IF c.arg[2] = "app"
       THEN /\ strs' = NSObject_drop(strs, c.file)
            /\ last' = [op |-> "open_file", ev |-> 0, by |-> t, arg |-> c.arg,
                        ret |-> "panic",
                        calls |-> Append(c.calls, [fn |-> ReleaseFn("NSObject"),
                                                   h |-> c.file])]
            /\ calling' = [calling EXCEPT ![t] = NotCalling]
       ELSE /\ strs' = str_to_ns_string(strs)
            /\ calling' = [calling EXCEPT ![t].at = "deref", ![t].app = Len(strs'),
                                          ![t].calls = Append(@,
                                              [fn |-> "stringWithUTF8String:",
                                               ret |-> Len(strs')])]
            /\ UNCHANGED last
    /\ UNCHANGED <<procs, workspace>>
    /\ CallFrame

\* &NS_WORKSPACE_SHARED while the static is not initialised: the thread
\* enters the initialiser and sends sharedWorkspace; every other thread that
\* dereferences the static waits until the initialiser is done.
workspace_enter_init(t) ==
    /\ ~crashed
    /\ calling[t].at = "deref"
    /\ MayRunInit(workspace)
    /\ workspace' = "running"
    /\ calling' = [calling EXCEPT ![t].at = "init",
                                  ![t].calls = @ \o NS_WORKSPACE_SHARED(workspace)]
    /\ UNCHANGED <<last, strs, procs>>
    /\ CallFrame

\* sharedWorkspace is answered: the static is initialised.
workspace_init(t) ==
    /\ ~crashed
    /\ calling[t].at = "init"
    /\ workspace' = "done"
    /\ calling' = [calling EXCEPT ![t].at = "deref"]
    /\ UNCHANGED <<last, strs, procs>>
    /\ CallFrame

\* launch, its last statement, once the static is initialised:
\* msg_send![workspace, launchApplication:app].  `ok`: what the message
\* answers (true also when the application was already running); `started`:
\* a process was started.  The NSString is moved into the message and never
\* dropped.
app_launch_send(t, ok, started) ==
    /\ ~crashed
    /\ calling[t].at = "deref"
    /\ calling[t].op = "launch"
    /\ workspace = "done"
    /\ started => ok
    /\ MayStart(started)
    /\ procs' = IF started THEN Started ELSE procs
    /\ last' = [op |-> "launch", ev |-> 0, by |-> t, arg |-> calling[t].arg, ret |-> ok,
                calls |-> Append(calling[t].calls,
                                 [fn |-> "launchApplication:", app |-> calling[t].app,
                                  ret |-> ok])]
    /\ calling' = [calling EXCEPT ![t] = NotCalling]
    /\ UNCHANGED <<strs, workspace>>
    /\ CallFrame

\* open_file, its last statement, once the static is initialised:
\* msg_send![workspace, openFile:file withApplication:app].  `started`: the
\* workspace started a process to open the file.  The answer of the message
\* is not returned, and both NSStrings are moved into the message and never
\* dropped.
app_open_file_send(t, started) ==
    /\ ~crashed
    /\ calling[t].at = "deref"
    /\ calling[t].op = "open_file"
    /\ workspace = "done"
    /\ MayStart(started)
    /\ procs' = IF started THEN Started ELSE procs
    /\ last' = [op |-> "open_file", ev |-> 0, by |-> t, arg |-> calling[t].arg,
                ret |-> "unit",
                calls |-> Append(calling[t].calls,
                                 [fn |-> "openFile:withApplication:",
                                  file |-> calling[t].file, app |-> calling[t].app])]
    /\ calling' = [calling EXCEPT ![t] = NotCalling]
    /\ UNCHANGED <<strs, workspace>>
    /\ CallFrame

\* The applications terminateAutomaticallyTerminableApplications may end:
\* those that run invisibly.
AutoTerminable == {p \in DOMAIN procs : procs[p].hidden /\ ~procs[p].terminated}

\* app::auto_terminate(): the system terminates the applications among them
\* that it holds to be automatically terminable.
app_auto_terminate(victims) ==
    /\ ~crashed
    /\ victims \subseteq AutoTerminable
    /\ procs' = [p \in DOMAIN procs |->
                    IF p \in victims THEN [procs[p] EXCEPT !.terminated = TRUE]
                    ELSE procs[p]]
    /\ last' = [op |-> "auto_terminate", ev |-> 0, arg |-> "none", ret |-> "unit",
                calls |-> <<[fn |-> "terminateAutomaticallyTerminableApplications"]>>]
    /\ UNCHANGED <<wvars, evars, cursor, iters, once, pc, nsapps, apps, shares>>

\* Identifiers a caller may look up: the processes there are at the start,
\* and one that is none until a launch starts it.
PidInputs == Pids \cup {3}

\* Lookups, requests and drops of application handles, and single samples
\* of the screen.
NextApp ==
    \/ \E pid \in PidInputs :
          /\ Len(apps) < MaxApps
          /\ App_from_pid(pid)
    \/ \E a \in LiveApps, hide \in BOOLEAN, ok \in BOOLEAN : App_set_hidden(a, hide, ok)
    \/ \E a \in LiveApps, o \in {{}, {ALL_WINDOWS, IGNORING_OTHER_APPS}}, ok \in BOOLEAN :
          App_activate(a, o, ok)
    \/ \E a \in LiveApps, force \in BOOLEAN, ok \in BOOLEAN : App_terminate(a, force, ok)
    \/ \E a \in LiveApps : App_drop(a)
    \/ \E p \in {<<F(0), F(0)>>, <<NaN, F(0)>>}, ok \in BOOLEAN :
          /\ Len(bitmaps) < MaxAppSamples
          /\ Display_color_at(MainDisplay, p, ok, <<0, 1, ComponentDen>>)

SpecApp == Init /\ [][NextApp]_vars

\* C17: a failed construction of an application handle or of a captured
\* image is an absent result, never a panic and never a wrapper around null.
\* App::from_pid(pid) returns None exactly when the lookup returned no
\* object; color_at at a finite position returns None exactly when the
\* display-capture call returned no image, and then reads no pixel.
C17_AbsentOnFailure ==
    /\ ~crashed
    /\ \A a \in 1..Len(apps) : apps[a].h # NULL
    /\ last.op = "from_pid" =>
          /\ Len(last.calls) = 1
          /\ last.calls[1].fn = "runningApplicationWithProcessIdentifier:"
          /\ (last.ret = None) <=> (last.calls[1].ret = NULL)
          /\ last.ret.some => apps[last.ev].h = last.calls[1].ret
    /\ (last.op = "color_at" /\ PosIsFinite(last.arg[2][1], last.arg[2][2])) =>
          /\ Cardinality(CallsTo("CGDisplayCreateImageForRect")) = 1
          /\ \A i \in CallsTo("CGDisplayCreateImageForRect") :
                (last.ret = None) <=> (last.calls[i].ret = NULL)
          /\ last.ret = None =>
                /\ CallsTo("initWithCGImage:") = {}
                /\ CallsTo("colorAtX:y:") = {}
                /\ CallsTo("getRed:green:blue:alpha:") = {}

\* The lookup of a process that does not run returned None, after a lookup
\* had returned a handle and a color_at call had returned no color.
C17_Witness ==
    /\ last.op = "from_pid"
    /\ last.arg = 3
    /\ last.ret = None
    /\ Len(apps) = 1
    /\ Len(bitmaps) = 1
    /\ Len(imgs) = 0

\* C18: set_hidden, activate and terminate are single attempts.  Each call
\* issues exactly one native request, selected by its argument (hide or
\* unhide; forceTerminate or terminate; activateWithOptions: with the given
\* options), and returns the boolean the OS reported, also when it is false.
C18_SingleAttempt ==
    /\ last.op \in {"set_hidden", "activate", "terminate"} =>
          /\ Len(last.calls) = 1
          /\ last.calls[1].h = apps[last.ev].h
          /\ last.ret = last.calls[1].ret
    /\ last.op = "set_hidden" =>
          last.calls[1].fn = IF last.arg THEN "hide" ELSE "unhide"
    /\ last.op = "terminate" =>
          last.calls[1].fn = IF last.arg THEN "forceTerminate" ELSE "terminate"
    /\ last.op = "activate" =>
          /\ last.calls[1].fn = "activateWithOptions:"
          /\ last.calls[1].options = last.arg

\* A plain terminate was refused by the OS: one terminate request, false
\* returned, the process still running and hidden as before.
C18_Witness ==
    /\ last.op = "terminate"
    /\ last.arg = FALSE
    /\ last.ret = FALSE
    /\ last.calls = <<[fn |-> "terminate", h |-> apps[last.ev].h, ret |-> FALSE]>>
    /\ ~procs[ProcessOf(last.ev)].terminated
    /\ procs[ProcessOf(last.ev)].hidden

\* C20: dropping an App obtained from from_pid releases its native reference
\* exactly once and does nothing else: the only native call is one release,
\* so no process changes its terminated, hidden or active state.
C20_DropOnlyReleases ==
    [][\A a \in 1..Len(apps) :
          (apps[a].live /\ ~apps'[a].live) =>
             /\ last'.calls = <<[fn |-> "release", h |-> apps[a].h]>>
             /\ nsapps' = [nsapps EXCEPT ![apps[a].h].rel = @ + 1]
             /\ nsapps'[apps[a].h].rel = 1
             /\ procs' = procs
             /\ apps' = [apps EXCEPT ![a].live = FALSE]]_vars

\* A handle to a process that was hidden and activated has been dropped: its
\* object has one release and the process is still hidden, active, running.
C20_Witness ==
    /\ last.op = "drop_app"
    /\ nsapps[apps[last.ev].h].rel = 1
    /\ procs[last.arg].hidden
    /\ procs[last.arg].active
    /\ ~procs[last.arg].terminated

\* ---------------------------------------------------------------------------
\* The current application (app.rs): the lazily initialised static
\* CURRENT_APPLICATION and App::current(), called from several threads
\* ---------------------------------------------------------------------------
\* The process the program itself runs as.
OwnPid == CHOOSE p \in Pids : \A q \in Pids : p <= q

\* A thread calls App::current().
current_call(t) ==
    /\ ~crashed
    /\ pc[t].at = "idle"
    /\ pc' = [pc EXCEPT ![t].at = "deref"]
    /\ UNCHANGED <<wvars, evars, last, cursor, iters, once, procs, nsapps, apps, shares>>

\* Dereferencing the static while it is not initialised: the thread enters
\* the initialiser; every other thread waits until the initialiser is done.
current_enter_init(t) ==
    /\ ~crashed
    /\ pc[t].at = "deref"
    /\ MayRunInit(once.state)
    /\ once' = [once EXCEPT !.state = "running"]
    /\ pc' = [pc EXCEPT ![t].at = "init"]
    /\ UNCHANGED <<wvars, evars, last, cursor, iters, procs, nsapps, apps, shares>>

\* The initialiser: msg_send![cls, currentApplication], stored in the static.
current_init(t) ==
    /\ ~crashed
    /\ pc[t].at = "init"
    /\ LET h == Len(nsapps) + 1 IN
       /\ nsapps' = Referenced(h, OwnPid)
       /\ apps' = Wrapped(Some(h), TRUE)
       /\ once' = [state |-> "done", value |-> Len(apps'), inits |-> once.inits + 1]
       /\ last' = [op |-> "CURRENT_APPLICATION", ev |-> t, arg |-> "unit",
                   ret |-> Len(apps'),
                   calls |-> <<[fn |-> "currentApplication", ret |-> h]>>]
    /\ pc' = [pc EXCEPT ![t].at = "deref"]
    /\ UNCHANGED <<wvars, evars, cursor, iters, procs, shares>>

\* App::current() returns: &CURRENT_APPLICATION, once the static is
\* initialised.
current_return(t) ==
    /\ ~crashed
    /\ pc[t].at = "deref"
    /\ once.state = "done"
    /\ pc' = [pc EXCEPT ![t] = [at |-> "has", ref |-> once.value]]
    /\ last' = [op |-> "App::current", ev |-> t, arg |-> "unit",
                ret |-> once.value, calls |-> <<>>]
    /\ UNCHANGED <<wvars, evars, cursor, iters, once, procs, nsapps, apps, shares>>

\* The thread lets go of the reference it was given.
current_forget(t) ==
    /\ ~crashed
    /\ pc[t].at = "has"
    /\ pc' = [pc EXCEPT ![t] = Idle]
    /\ UNCHANGED <<wvars, evars, last, cursor, iters, once, procs, nsapps, apps, shares>>

\* Threads call App::current() and use the handle it gave them.
NextCurrent ==
    \/ \E t \in Threads : current_call(t)
    \/ \E t \in Threads : current_enter_init(t)
    \/ \E t \in Threads : current_init(t)
    \/ \E t \in Threads : current_return(t)
    \/ \E t \in Threads : current_forget(t)
    \/ \E t \in Threads, hide \in BOOLEAN, ok \in BOOLEAN :
          /\ pc[t].at = "has"
          /\ App_set_hidden(pc[t].ref, hide, ok)
    \/ \E t \in Threads, ok \in BOOLEAN :
          /\ pc[t].at = "has"
          /\ App_activate(pc[t].ref, {IGNORING_OTHER_APPS}, ok)

SpecCurrent == Init /\ [][NextCurrent]_vars

\* The threads that hold the reference App::current() returned.
Holders == {t \in Threads : pc[t].at = "has"}

\* C11: the singleton for the current application is initialised at most
\* once, also when several threads call App::current() for the first time
\* concurrently; every call returns the same handle; the handle is never
\* modified after its initialisation and its native object is never released.
C11_CurrentOnce ==
    /\ [](/\ once.inits <= 1
          /\ (once.inits = 1) <=> (once.state = "done")
          /\ Cardinality({t \in Threads : pc[t].at = "init"}) <= 1
          /\ \A t \in Holders : once.state = "done" /\ pc[t].ref = once.value
          /\ once.state = "done" =>
                /\ apps[once.value].live
                /\ nsapps[apps[once.value].h].rel = 0)
    /\ [][once.state = "done" =>
             /\ once' = once
             /\ apps'[once.value] = apps[once.value]
             /\ nsapps'[apps[once.value].h] = nsapps[apps[once.value].h]]_vars

\* Every thread is inside App::current() or holds its result; at least two
\* of them hold the handle of the one initialisation, and it has been used
\* to hide the application.
C11_Witness ==
    /\ Cardinality(Holders) >= 2
    /\ \A t \in Threads : pc[t].at # "idle"
    /\ once.inits = 1
    /\ procs[OwnPid].hidden


\* ---------------------------------------------------------------------------
\* Events shared between threads (mod.rs): Event is Send and Sync
\* ---------------------------------------------------------------------------
\* Send lets the owner of an Event hand it to another thread; Sync lets other
\* threads hold `&Event` while the owner keeps it.  `shares[e]` names the
\* owner of wrapper e and the threads holding a shared reference to it; the
\* entry of a wrapper is made when a thread enters the call that returns it.

\* The thread that is inside a constructor or a clone, if any.
Constructing == Len(shares) = Len(evs) + 1

\* Thread t may call a `&self` method of wrapper e.
MayUse(t, e) ==
    /\ e \in 1..Len(evs)
    /\ shares[e].owner = t \/ t \in shares[e].refs

\* A drop or a move that does not wait for the shared references to end.
Exclusive_Unchecked(e) == TRUE

\* `fn drop(&mut self)` and a move need the wrapper exclusively: no shared
\* reference to it is alive.
Exclusive(e) == shares[e].refs = {}

\* A thread enters keyboard::Event::new or Event::clone: it will own the
\* wrapper the call returns.
thread_enter(t) ==
    /\ ~crashed
    /\ ~Constructing
    /\ shares' = Append(shares, [owner |-> t, refs |-> {}])
    /\ UNCHANGED <<wvars, evars, last, cursor, iters, once, pc, procs, nsapps, apps>>

\* The constructor returns to the thread that entered it.
thread_new(t) ==
    /\ Constructing
    /\ shares[Len(shares)].owner = t
    /\ keyboard_Event_new(Return, TRUE, TRUE, {})

\* Event::clone, called by a thread that owns or borrows e.
thread_clone(t, e) ==
    /\ Constructing
    /\ shares[Len(shares)].owner = t
    /\ MayUse(t, e)
    /\ Event_clone(e, TRUE)

\* Event::flags and Event::post, called by a thread that owns or borrows e.
thread_flags(t, e) == ~Constructing /\ MayUse(t, e) /\ Event_flags(e)
thread_post(t, e) == ~Constructing /\ MayUse(t, e) /\ Event_post(e, "Session")

\* The owner lends `&Event` to another thread.
thread_lend(t, e, u) ==
    /\ ~crashed
    /\ e \in LiveEvents
    /\ shares[e].owner = t
    /\ u # t /\ u \notin shares[e].refs
    /\ shares' = [shares EXCEPT ![e].refs = @ \cup {u}]
    /\ UNCHANGED <<wvars, evars, last, cursor, iters, once, pc, procs, nsapps, apps>>

\* A thread's shared reference ends.
thread_return(u, e) ==
    /\ ~crashed
    /\ e \in 1..Len(evs)
    /\ u \in shares[e].refs
    /\ shares' = [shares EXCEPT ![e].refs = @ \ {u}]
    /\ UNCHANGED <<wvars, evars, last, cursor, iters, once, pc, procs, nsapps, apps>>

\* The owner moves the Event to another thread.
thread_send(t, e, u) ==
    /\ ~crashed
    /\ e \in LiveEvents
    /\ shares[e].owner = t
    /\ Exclusive(e)
    /\ u # t
    /\ shares' = [shares EXCEPT ![e].owner = u]
    /\ UNCHANGED <<wvars, evars, last, cursor, iters, once, pc, procs, nsapps, apps>>

\* The owner drops the Event.
thread_drop(t, e) ==
    /\ ~Constructing
    /\ e \in LiveEvents
    /\ shares[e].owner = t
    /\ Exclusive(e)
    /\ Event_drop(e)

\* The threads that construct, share and receive events.
Sharers == 1..MaxSharers

NextShared ==
    \/ \E t \in Sharers :
          /\ Len(evs) < MaxSharedEvents
          /\ thread_enter(t)
    \/ \E t \in Sharers : thread_new(t)
    \/ \E t \in Sharers, e \in LiveEvents : thread_clone(t, e)
    \/ \E t \in Sharers, e \in LiveEvents : thread_flags(t, e)
    \/ \E t \in Sharers, e \in LiveEvents :
          /\ stream < MaxSharedPosts
          /\ thread_post(t, e)
    \/ \E t, u \in Sharers, e \in LiveEvents : thread_lend(t, e, u)
    \/ \E u \in Sharers, e \in 1..Len(evs) : thread_return(u, e)
    \/ \E t, u \in Sharers, e \in LiveEvents : thread_send(t, e, u)
    \/ \E t \in Sharers, e \in LiveEvents : thread_drop(t, e)

SpecShared == Init /\ [][NextShared]_vars

\* C12: events may be moved between threads and read concurrently.  In every
\* interleaving of threads that construct an event, call flags(), post() or
\* clone() on it, or receive ownership of it, no native call is issued on a
\* released handle, and the handle is released exactly once, after its last
\* use: a dropped wrapper's handle has one release and no thread still holds
\* a reference to it; a live wrapper's handle has none.
C12_SharedRelease ==
    /\ ~uaf
    /\ ~crashed
    /\ \A e \in 1..Len(evs) :
          /\ evs[e].h # NULL
          /\ objs[evs[e].h].rel = IF evs[e].live THEN 0 ELSE 1
          /\ ~evs[e].live => shares[e].refs = {}
    /\ last.op \in {"flags", "post", "clone"} => objs[last.calls[1].h].rel = 0

\* An event was cloned and posted and then dropped by its owner, while its
\* clone lives on, owned by another thread and borrowed by a thread.
C12_Witness ==
    /\ last.op = "drop"
    /\ last.ev = 1
    /\ ~evs[1].live
    /\ stream = 1
    /\ Len(evs) = 2
    /\ evs[2].from = 1
    /\ evs[2].live
    /\ shares[2].owner # shares[1].owner
    /\ shares[2].refs # {}


\* ---------------------------------------------------------------------------
\* The mouse cursor (mouse.rs): location, location_iter, LocationIter,
\* warp_location
\* ---------------------------------------------------------------------------
\* `cursor` is in the coordinates of Quartz, which count y from the top of
\* the screen; NSEvent counts it from the bottom.
ScreenHeight == 4

\* msg_send![ns_event, mouseLocation]: the OS reports where the cursor is.
mouseLocation == [x |-> cursor.x, y |-> F(ScreenHeight - cursor.y.v)]

\* A location taken when the program started instead of asking again.
location_from_Stale(ns_event) == Location_from([x |-> F(0), y |-> F(ScreenHeight)])

\* location_from(ns_event)
location_from(ns_event) == Location_from(mouseLocation)

\* The record of the native query location_from issues.
LocationQuery(ns_event) == [fn |-> "mouseLocation", cls |-> ns_event, ret |-> mouseLocation]

\* mouse::location()
mouse_location ==
    /\ ~crashed
    /\ last' = [op |-> "location", ev |-> 0, arg |-> "unit",
                ret |-> location_from("NSEvent"),
                calls |-> <<LocationQuery("NSEvent")>>]
    /\ UNCHANGED <<wvars, evars, cursor, iters, once, pc, procs, nsapps, apps, shares>>

\* mouse::location_iter().  `prev` and `again` are not fields of
\* LocationIter: they remember what the iterator's latest advance returned and
\* whether it has advanced more than once.
mouse_location_iter ==
    /\ ~crashed
    /\ iters' = Append(iters, [ns_event |-> "NSEvent", prev |-> None, again |-> FALSE])
    /\ last' = [op |-> "location_iter", ev |-> Len(iters'), arg |-> "unit",
                ret |-> Len(iters'), calls |-> <<>>]
    /\ UNCHANGED <<wvars, evars, cursor, once, pc, procs, nsapps, apps, shares>>

\* <LocationIter as Iterator>::next
LocationIter_next(i) ==
    /\ ~crashed
    /\ i \in 1..Len(iters)
    /\ LET ret == Some(location_from(iters[i].ns_event)) IN
       /\ iters' = [iters EXCEPT ![i].prev = ret, ![i].again = iters[i].prev.some]
       /\ last' = [op |-> "LocationIter::next", ev |-> i, arg |-> "unit", ret |-> ret,
                   calls |-> <<LocationQuery(iters[i].ns_event)>>]
    /\ UNCHANGED <<wvars, evars, cursor, once, pc, procs, nsapps, apps, shares>>

\* usize::max_value()
usize_max_value == "usize::MAX"

\* A size hint that promises an end.
size_hint_Bounded(it) == <<usize_max_value, Some(usize_max_value)>>

\* (usize::max_value(), None)
size_hint(it) == <<usize_max_value, None>>

\* <LocationIter as Iterator>::size_hint
LocationIter_size_hint(i) ==
    /\ ~crashed
    /\ i \in 1..Len(iters)
    /\ last' = [op |-> "LocationIter::size_hint", ev |-> i, arg |-> "unit",
                ret |-> size_hint(iters[i]), calls |-> <<>>]
    /\ UNCHANGED <<wvars, evars, cursor, iters, once, pc, procs, nsapps, apps, shares>>

\* Where a caller may send the cursor: two places of the screen, and a
\* location that is none.
WarpTargets == {<<F(4), F(2)>>, <<F(3), F(0)>>, <<NaN, F(0)>>}

NextIter ==
    \/ mouse_location
    \/ /\ Len(iters) < MaxIters
       /\ mouse_location_iter
    \/ \E i \in 1..Len(iters) : LocationIter_next(i)
    \/ \E i \in 1..Len(iters) : LocationIter_size_hint(i)
    \/ \E l \in WarpTargets : mouse_warp_location(l)

SpecIter == InitMouse /\ [][NextIter]_vars

\* C13: two iterators from separate location_iter() calls are independent.
\* Each advance issues its own query to the OS and returns what the query
\* answered, unchanged; it leaves every other iterator as it was and the
\* cursor where it is, and nothing an earlier advance returned is reused.
C13_FreshQuery ==
    /\ [](last.op = "LocationIter::next" =>
            /\ Len(last.calls) = 1
            /\ last.calls[1].fn = "mouseLocation"
            /\ last.calls[1].ret = mouseLocation
            /\ last.ret = Some(<<last.calls[1].ret.x, last.calls[1].ret.y>>))
    /\ [][\A i \in 1..Len(iters) :
             iters'[i] # iters[i] =>
                /\ last'.op = "LocationIter::next" /\ last'.ev = i
                /\ cursor' = cursor
                /\ \A j \in 1..Len(iters) : j # i => iters'[j] = iters[j]]_vars

\* The second iterator returned the new place of the cursor after the first
\* iterator had returned the place the cursor was at before.
C13_Witness ==
    /\ last.op = "LocationIter::next"
    /\ last.ev = 2
    /\ iters[1].prev = Some(<<F(0), F(ScreenHeight)>>)
    /\ last.ret = Some(<<F(4), F(ScreenHeight - 2)>>)

\* C14: a LocationIter never terminates.  Every advance returns a location,
\* whatever it returned before, and the size hint reports no upper bound.
C14_NeverEnds ==
    /\ last.op = "LocationIter::next" => last.ret.some
    /\ last.op = "LocationIter::size_hint" => last.ret[2] = None

\* An iterator that had already advanced returned one more location, while
\* a second iterator exists.
C14_Witness ==
    /\ last.op = "LocationIter::next"
    /\ iters[last.ev].again
    /\ last.ret.some
    /\ Len(iters) = 2


\* ---------------------------------------------------------------------------
\* Windows (os/windows/mouse.rs): location, set_location
\* ---------------------------------------------------------------------------
\* 2^n
Pow2(n) == 2^n

\* The number of bits of usize on a target of pointer width w.
UsizeBits(w) == IF w = 32 THEN IntBits ELSE 2 * IntBits

\* `u as c_int` for a usize u: the low bits, read as a signed number.
as_c_int(u) ==
    LET m == u % Pow2(IntBits) IN
    IF m >= Pow2(IntBits - 1) THEN m - Pow2(IntBits) ELSE m

\* `i as usize` for a LONG i: sign-extended, read as an unsigned number.
as_usize(w, i) == IF i < 0 THEN i + Pow2(UsizeBits(w)) ELSE i

\* A call that hands the coordinates over in the opposite order.
POINT_from_Swapped(p) == [x |-> as_c_int(p[2]), y |-> as_c_int(p[1])]

\* The arguments of SetCursorPos(x as _, y as _)
POINT_from(p) == [x |-> as_c_int(p[1]), y |-> as_c_int(p[2])]

\* (point.x as _, point.y as _)
Location_of_POINT(w, pt) == <<as_usize(w, pt.x), as_usize(w, pt.y)>>

\* The nearest value of lo..hi.
Clamp(v, lo, hi) == IF v < lo THEN lo ELSE IF v > hi THEN hi ELSE v

\* SetCursorPos(x, y): where the system puts the cursor.  Coordinates that are
\* not within the screen rectangle are adjusted so that the cursor stays in.
SetCursorPos(pt) ==
    [x |-> Clamp(pt.x, 0, ScreenW - 1), y |-> Clamp(pt.y, 0, ScreenH - 1)]

\* A position is inside the screen rectangle.
InScreen(p) == p[1] < ScreenW /\ p[2] < ScreenH

\* windows::mouse::location().  `ok`: GetCursorPos succeeded (the process has
\* WINSTA_READATTRIBUTES access).
win_mouse_location(ok) ==
    /\ ~crashed
    /\ last' = [op |-> "win::location", ev |-> 0, arg |-> "unit",
                ret |-> IF ok THEN Some(Location_of_POINT(width, wcursor)) ELSE None,
                calls |-> <<[fn |-> "GetCursorPos", ret |-> ok]>>]
    /\ UNCHANGED <<evars, tvars, wvars>>

\* windows::mouse::set_location((x, y)).  `ok`: SetCursorPos succeeded (the
\* process has WINSTA_WRITEATTRIBUTES access).  `set` is not part of a POINT:
\* it remembers the position the latest set_location that succeeded was
\* given, while nothing else has moved the cursor since.
win_mouse_set_location(p, ok) ==
    /\ ~crashed
    /\ LET pt == POINT_from(p)
           to == SetCursorPos(pt)
       IN
       /\ wcursor' = IF ok THEN [x |-> to.x, y |-> to.y, set |-> Some(p)] ELSE wcursor
       /\ last' = [op |-> "win::set_location", ev |-> 0, arg |-> p, ret |-> ok,
                   calls |-> <<[fn |-> "SetCursorPos", x |-> pt.x, y |-> pt.y,
                                ret |-> ok]>>]
    /\ UNCHANGED <<evars, tvars, dcs, buf, spare, strs, workspace, calling>>

\* The user moves the mouse: the cursor is somewhere else on the screen.
win_cursor_moved(pt) ==
    /\ ~crashed
    /\ <<pt.x, pt.y>> # <<wcursor.x, wcursor.y>>
    /\ wcursor' = [x |-> pt.x, y |-> pt.y, set |-> None]
    /\ last' = [op |-> "cursor moved", ev |-> 0, arg |-> pt, ret |-> "unit",
                calls |-> <<>>]
    /\ UNCHANGED <<evars, tvars, dcs, buf, spare, strs, workspace, calling>>

\* ---------------------------------------------------------------------------
\* Windows (os/windows/screen.rs): color_at
\* ---------------------------------------------------------------------------
\* The COLORREF 0xFFFFFFFF (CLR_INVALID), written as the signed 32-bit number
\* of the same bits; a valid COLORREF is 0x00bbggrr.
CLR_INVALID == -1

\* wingdi::GetRValue, GetGValue, GetBValue
GetRValue(color) == color % 256
GetGValue(color) == (color \div 256) % 256
GetBValue(color) == (color \div 65536) % 256

\* ptr::null_mut(): GetDC(NULL) is the device context of the whole screen.
WholeScreen == "NULL"

\* winuser::GetDesktopWindow()
GetDesktopWindow == "desktop window"

\* winuser::GetDC(hwnd): the device contexts after the call, and the handle it
\* returned (NULL when the system has none to give).
GetDC(hwnd, ok) ==
    IF ok THEN Append(dcs, [wnd |-> hwnd, rel |-> 0, relwnd |-> "none"]) ELSE dcs

\* winuser::ReleaseDC(hwnd, hdc)
ReleaseDC(d, hwnd, hdc) == [d EXCEPT ![hdc].rel = @ + 1, ![hdc].relwnd = hwnd]

\* wingdi::GetPixel(hdc, x, y): the color of the pixel, CLR_INVALID for a
\* pixel outside of the clipping region.
GetPixel(pt, color) ==
    IF pt.x \in 0..(ScreenW - 1) /\ pt.y \in 0..(ScreenH - 1) THEN color ELSE CLR_INVALID

\* windows::screen::color_at((x, y)).  `ok`: GetDC returned a context;
\* `shown`: the COLORREF of the pixel on the screen.
win_color_at(p, ok, shown) ==
    /\ ~crashed
    /\ LET hdc == IF ok THEN Len(dcs) + 1 ELSE NULL
           got == GetDC(WholeScreen, ok)
           pt == POINT_from(p)
           color == GetPixel(pt, shown)
           get_dc == [fn |-> "GetDC", hwnd |-> WholeScreen, ret |-> hdc]
           get_pixel == [fn |-> "GetPixel", hdc |-> hdc, x |-> pt.x, y |-> pt.y,
                         ret |-> color]
       IN
       IF hdc = NULL
       THEN /\ dcs' = got
            /\ last' = [op |-> "win::color_at", ev |-> 0, arg |-> p, ret |-> None,
                        calls |-> <<get_dc>>]
       ELSE IF color = CLR_INVALID
       THEN /\ dcs' = got
            /\ last' = [op |-> "win::color_at", ev |-> hdc, arg |-> p, ret |-> None,
                        calls |-> <<get_dc, get_pixel>>]
       ELSE /\ dcs' = ReleaseDC(got, GetDesktopWindow, hdc)
            /\ last' = [op |-> "win::color_at", ev |-> hdc, arg |-> p,
                        ret |-> Some([red |-> GetRValue(color),
                                      green |-> GetGValue(color),
                                      blue |-> GetBValue(color)]),
                        calls |-> <<get_dc, get_pixel,
                                    [fn |-> "ReleaseDC", hwnd |-> GetDesktopWindow,
                                     hdc |-> hdc]>>]
    /\ UNCHANGED <<evars, tvars, wcursor, buf, spare, strs, workspace, calling>>

\* The values of usize on the target.
Usizes == 0..(Pow2(UsizeBits(width)) - 1)

\* Positions a caller may pass: inside the screen, beside it, beyond the
\* range of c_int where the target's usize has such values.
WinPositions ==
    {p \in {<<0, 0>>, <<1, 0>>, <<ScreenW - 1, ScreenH - 1>>, <<ScreenW + 1, 1>>,
            <<Pow2(IntBits) - 1, 0>>, <<Pow2(IntBits) + 1, 1>>} :
        p[1] \in Usizes /\ p[2] \in Usizes}

\* The pixels of the screen.
ScreenPoints == {[x |-> x, y |-> y] : x \in 0..(ScreenW - 1), y \in 0..(ScreenH - 1)}

NextWin ==
    \/ \E ok \in BOOLEAN : win_mouse_location(ok)
    \/ \E p \in WinPositions, ok \in BOOLEAN : win_mouse_set_location(p, ok)
    \/ \E pt \in ScreenPoints : win_cursor_moved(pt)
    \/ \E p \in WinPositions, ok \in BOOLEAN, shown \in {0, 16711935} :
          /\ Len(dcs) < MaxDCs
          /\ win_color_at(p, ok, shown)

SpecWin == InitMouse /\ [][NextWin]_vars

\* The position p the claim speaks of: set_location(p) returned true for a
\* p inside the screen rectangle, and the cursor has not been moved since.
SetInScreen == wcursor.set.some /\ InScreen(wcursor.set.v)

\* C22 as claimed: on Windows, after set_location(p) returned true for a
\* position p inside the screen rectangle, the cursor is at p, and every
\* location() until the next cursor move returns Some(p).
C22_SetThenGet ==
    /\ [](SetInScreen => <<wcursor.x, wcursor.y>> = wcursor.set.v)
    /\ [][(last'.op = "win::location" /\ SetInScreen) =>
             last'.ret = Some(wcursor.set.v)]_vars

\* C22 as the code has it: after set_location(p) returned true for a position
\* p inside the screen rectangle the cursor is at p, and every location()
\* until the next cursor move returns Some(p) or None; any location() returns
\* None exactly when GetCursorPos failed, and otherwise where the cursor is.
C22_SetThenGetIfReadable ==
    /\ []((last.op = "win::set_location" /\ last.ret /\ InScreen(last.arg)) =>
            <<wcursor.x, wcursor.y>> = last.arg)
    /\ [](SetInScreen => <<wcursor.x, wcursor.y>> = wcursor.set.v)
    /\ [][last'.op = "win::location" =>
             /\ last'.ret \in {None, Some(<<wcursor.x, wcursor.y>>)}
             /\ (last'.ret = None) <=> ~last'.calls[1].ret
             /\ SetInScreen => last'.ret \in {None, Some(wcursor.set.v)}]_vars

\* location() returned the far corner of the screen: set_location had
\* returned true for it and nothing has moved the cursor since.
C22_Witness ==
    /\ last.op = "win::location"
    /\ last.ret = Some(<<ScreenW - 1, ScreenH - 1>>)
    /\ wcursor = [x |-> ScreenW - 1, y |-> ScreenH - 1,
                  set |-> Some(<<ScreenW - 1, ScreenH - 1>>)]

\* C24: on Windows, every device context color_at acquired has been released
\* exactly once when color_at has returned, on every exit path, and the
\* release named the window the context was acquired for.
C24_ContextReleased ==
    \A d \in 1..Len(dcs) :
        /\ dcs[d].rel = 1
        /\ dcs[d].relwnd = dcs[d].wnd

\* ---------------------------------------------------------------------------
\* Strings of an application (os/macos/app.rs, os/macos/mod.rs)
\* ---------------------------------------------------------------------------
\* Option<NSObject> read from the pointer a getter returned.
OptionNSObject(h) == IF h = NULL THEN None ELSE Some(h)

\* The calls of ns_string_encode_utf8(ns_string): UTF8String is read from
\* Some(s), and s, an NSObject taken by value, is dropped at the end of the
\* block; None sends nothing.
ns_string_encode_utf8(ns_string) ==
    IF ns_string.some
    THEN <<[fn |-> "UTF8String", h |-> ns_string.v],
           [fn |-> ReleaseFn("NSObject"), h |-> ns_string.v]>>
    ELSE <<>>

\* App::bundle_identifier (sel = "bundleIdentifier") and App::localized_name
\* (sel = "localizedName").  `ok`: the application has such a string.
App_string(a, sel, ok) ==
    /\ ~crashed
    /\ a \in LiveApps
    /\ apps[a].h # NULL
    /\ LET h == IF ok THEN Len(strs) + 1 ELSE NULL
           s == OptionNSObject(h)
           got == StringReturned(sel, apps[a].h, ok)
       IN
       /\ strs' = IF s.some THEN NSObject_drop(got, s.v) ELSE got
       /\ last' = [op |-> sel, ev |-> a, arg |-> ProcessOf(a),
                   ret |-> IF s.some THEN Some(<<sel, ProcessOf(a)>>) ELSE None,
                   calls |-> <<[fn |-> sel, h |-> apps[a].h, ret |-> h]>>
                             \o ns_string_encode_utf8(s)]
    /\ UNCHANGED <<evars, tvars, wcursor, dcs, buf, spare, workspace, calling>>

\* The NSStrings made, and those the open_file calls under way have yet to
\* make.
StringsDue == Len(strs) + Cardinality({t \in Threads : calling[t].at = "name"})

\* The threads that call launch and open_file.
Callers == {t \in Threads : t <= MaxCallers}

\* Lookups of applications, reads of their strings and process identifiers,
\* requests to the workspace by the threads of the program, and drops.
NextOwn ==
    \/ \E pid \in PidInputs :
          /\ Len(apps) < MaxCallApps
          /\ App_from_pid(pid)
    \/ \E a \in LiveApps, sel \in {"bundleIdentifier", "localizedName"}, ok \in BOOLEAN :
          /\ Len(strs) < MaxStrings
          /\ App_string(a, sel, ok)
    \/ \E a \in LiveApps : App_drop(a)
    \/ \E a \in LiveApps, ok \in BOOLEAN : App_set_hidden(a, TRUE, ok)
    \/ \E a \in LiveApps, known \in BOOLEAN : App_pid(a, known)
    \/ \E t \in Callers, nul \in BOOLEAN :
          /\ StringsDue < MaxCallStrings
          /\ app_launch(t, nul)
    \/ \E t \in Callers, named \in BOOLEAN, nul \in {"none", "path", "app"} :
          /\ StringsDue + (IF named THEN 2 ELSE 1) <= MaxCallStrings
          /\ app_open_file(t, named, nul)
    \/ \E t \in Callers : app_open_file_name(t)
    \/ \E t \in Callers : workspace_enter_init(t)
    \/ \E t \in Callers : workspace_init(t)
    \/ \E t \in Callers, ok \in BOOLEAN, started \in BOOLEAN : app_launch_send(t, ok, started)
    \/ \E t \in Callers, started \in BOOLEAN : app_open_file_send(t, started)
    \/ \E victims \in SUBSET DOMAIN procs : app_auto_terminate(victims)

SpecOwn == Init /\ [][NextOwn]_vars

\* C23: a wrapper sends a release only for a reference it owns: for no
\* native object do the releases sent by wrappers exceed the owned references
\* acquired (create, copy, alloc).  Objects returned by getters
\* (runningApplicationWithProcessIdentifier:, bundleIdentifier,
\* localizedName) are not released without a matching retain.
C23_ReleasesOwned ==
    /\ \A n \in 1..Len(nsapps) : nsapps[n].rel <= nsapps[n].own
    /\ \A n \in 1..Len(strs) : strs[n].rel <= strs[n].own

\* ---------------------------------------------------------------------------
\* Typed events as Event Core (os/macos/macros.rs: declare_event!)
\* ---------------------------------------------------------------------------
\* A conversion that drops the typed wrapper without handing its Event on.
IntoCore_Forgotten(e) == [evs EXCEPT ![e].cls = "core", ![e].live = FALSE]

\* impl From<Event> for super::Event: `subclass.0`, the Event Core inside the
\* typed event is moved out; the wrapper of the handle is now an Event Core.
IntoCore(e) == [evs EXCEPT ![e].cls = "core"]

\* super::Event::from(typed): no native call.
Event_into_core(e) ==
    /\ ~crashed
    /\ e \in LiveEvents
    /\ evs[e].cls # "core"
    /\ evs' = IntoCore(e)
    /\ last' = [op |-> "into", ev |-> e, ret |-> evs[e].h, calls |-> <<>>]
    /\ UNCHANGED <<wvars, tvars, imgs, bitmaps, seqs, width, objs, stream, crashed, uaf>>

\* Deref, DerefMut, AsRef, AsMut of a typed event: `&self.0`, a borrow of the
\* Event Core inside it; no native call.
Event_as_ref(e) ==
    /\ ~crashed
    /\ e \in LiveEvents
    /\ evs[e].cls # "core"
    /\ last' = [op |-> "as_ref", ev |-> e, ret |-> evs[e].h, calls |-> <<>>]
    /\ UNCHANGED <<wvars, tvars, imgs, bitmaps, seqs, width, objs, evs, stream, crashed, uaf>>

\* Typed events of the three kinds, their clones, their conversions to Event
\* Core, and the Event Core methods reached through them.
NextTyped ==
    \/ \E ok \in BOOLEAN :
          /\ Len(evs) < MaxTypedEvents
          /\ keyboard_Event_new(Space, TRUE, ok, {})
    \/ \E ok \in BOOLEAN :
          /\ Len(evs) < MaxTypedEvents
          /\ mouse_Event_new("Left", "Down", <<F(0), F(0)>>, ok, {})
    \/ \E ok \in BOOLEAN :
          /\ Len(evs) < MaxTypedEvents
          /\ wheel_Event_new("Line", <<20>>, ok, {})
    \/ \E e \in LiveEvents, ok \in BOOLEAN :
          /\ Len(evs) < MaxTypedEvents
          /\ Event_clone(e, ok)
    \/ \E e \in LiveEvents : Event_into_core(e)
    \/ \E e \in LiveEvents : Event_as_ref(e)
    \/ \E e \in LiveEvents : Event_flags(e)
    \/ \E e \in LiveEvents : Event_set_flags(e, {SHIFT})
    \/ \E e \in LiveEvents :
          /\ stream < MaxTypedPosts
          /\ Event_post(e, "Session")
    \/ \E e \in LiveEvents : Event_drop(e)

SpecTyped == Init /\ [][NextTyped]_vars

\* The wrappers that hold handle h, and those of them that were dropped.
Owners(h) == {e \in 1..Len(evs) : evs[e].h = h}
DroppedOwners(h) == {e \in Owners(h) : ~evs[e].live}

\* C25: typed events share Event Core's ownership of the one native handle.
\* A clone of a typed event is made by the native copy call, on a handle of
\* its own and of the same type; converting a typed event into Event Core, or
\* borrowing it as one, issues no native call and leaves every native object
\* and the handle as they were; flags, set_flags and post through the event
\* name the handle the wrapper holds; and every handle has one owner and is
\* released once, exactly when that owner (typed or converted) is dropped.
C25_TypedSharesCore ==
    /\ [](\A h \in Handles :
            /\ Cardinality(Owners(h)) = 1
            /\ objs[h].rel = Cardinality(DroppedOwners(h)))
    /\ [][/\ last'.op = "clone" =>
                /\ Len(last'.calls) = 1
                /\ last'.calls[1].fn = "CGEventCreateCopy"
                /\ last'.calls[1].h = evs[last'.ev].h
                /\ Len(evs') = Len(evs) + 1
                /\ evs'[Len(evs')].cls = evs[last'.ev].cls
                /\ evs'[Len(evs')].h = last'.calls[1].ret
                /\ evs[last'.ev].h # NULL => evs'[Len(evs')].h # evs[last'.ev].h
          /\ last'.op \in {"into", "as_ref"} =>
                /\ last'.calls = <<>>
                /\ objs' = objs /\ stream' = stream
                /\ Len(evs') = Len(evs)
                /\ evs'[last'.ev].h = evs[last'.ev].h
                /\ evs'[last'.ev].live
          /\ last'.op \in {"flags", "set_flags", "post"} =>
                /\ Len(last'.calls) = 1
                /\ last'.calls[1].h = evs[last'.ev].h
                /\ evs' = evs
         ]_vars

\* A clone of a typed event was converted into Event Core, its flags were set
\* through it, and it was dropped: its handle is released once, while the
\* typed event it was cloned from still holds its own unreleased handle with
\* the flags it had.
C25_Witness ==
    /\ last.op = "drop"
    /\ evs[last.ev].cls = "core" /\ evs[last.ev].from # 0
    /\ evs[last.ev].h # NULL /\ objs[evs[last.ev].h].rel = 1
    /\ objs[evs[last.ev].h].flags = {SHIFT}
    /\ LET src == evs[last.ev].from IN
       /\ evs[src].cls = "mouse" /\ evs[src].live
       /\ evs[src].h # NULL /\ objs[evs[src].h].rel = 0
       /\ objs[evs[src].h].flags = {}

\* ---------------------------------------------------------------------------
\* The families of native handles side by side (os/macos/mod.rs, screen.rs)
\* ---------------------------------------------------------------------------
\* Events, pixel samplers, applications and their strings in one program.
NextFamilies ==
    \/ \E ok \in BOOLEAN :
          /\ Len(evs) < MaxPerFamily
          /\ mouse_Event_new("Left", "Down", <<F(0), F(0)>>, ok, {})
    \/ \E e \in LiveEvents : Event_drop(e)
    \/ /\ Len(bitmaps) < MaxPerFamily
       /\ Colors_new(MainDisplay, <<F(0), F(0)>>)
    \/ \E q \in LiveSeqs, ok \in BOOLEAN :
          /\ ok => Len(imgs) < MaxPerFamily
          /\ Colors_next(q, ok, <<0, 1, ComponentDen>>)
    \/ \E q \in LiveSeqs : Colors_drop(q)
    \/ \E ok \in BOOLEAN :
          /\ ok => Len(imgs) < MaxPerFamily
          /\ Len(bitmaps) < MaxPerFamily
          /\ Display_color_at(MainDisplay, <<F(0), F(0)>>, ok, <<0, 1, ComponentDen>>)
    \/ \E pid \in {1, 3} :
          /\ Len(apps) < MaxPerFamily
          /\ App_from_pid(pid)
    \/ \E a \in LiveApps, ok \in BOOLEAN :
          /\ Len(strs) < MaxPerFamily
          /\ App_string(a, "localizedName", ok)
    \/ \E a \in LiveApps : App_drop(a)

SpecFamilies == Init /\ [][NextFamilies]_vars

\* The releases a sequence of native objects had before a step (none for an
\* object the step created), and the objects of it the step released.
RelBefore(old, n) == IF n \in 1..Len(old) THEN old[n].rel ELSE 0
ReleasedNow(old, new) == {n \in 1..Len(new) : new[n].rel > RelBefore(old, n)}

\* C27: each native handle is released with the primitive of its family.  A
\* step that releases an event handle (produced by an event create or copy
\* call) does so by CFRelease on that handle; a step that releases a Cocoa
\* object (bitmap, application, string) does so by the message `release` to
\* that object; a captured image is released by CGImageRelease; and a call
\* of a family's primitive releases nothing of another family.
C27_FamilyRelease ==
    [][/\ \A h \in ReleasedNow(objs, objs') :
             /\ [fn |-> "CFRelease", h |-> h] \in {last'.calls[i] : i \in 1..Len(last'.calls)}
             /\ CallsTo("release")' = {} /\ CallsTo("CGImageRelease")' = {}
       /\ \A b \in ReleasedNow(bitmaps, bitmaps') :
             /\ [fn |-> "release", bitmap |-> b] \in {last'.calls[i] : i \in 1..Len(last'.calls)}
             /\ CallsTo("CFRelease")' = {} /\ CallsTo("CGImageRelease")' = {}
       /\ \A n \in ReleasedNow(nsapps, nsapps') \cup ReleasedNow(strs, strs') :
             /\ [fn |-> "release", h |-> n] \in {last'.calls[i] : i \in 1..Len(last'.calls)}
             /\ CallsTo("CFRelease")' = {} /\ CallsTo("CGImageRelease")' = {}
       /\ \A i \in ReleasedNow(imgs, imgs') :
             /\ CallsTo("CGImageRelease")' # {}
             /\ CallsTo("CFRelease")' = {} /\ CallsTo("release")' = {}
       /\ CallsTo("CFRelease")' # {} =>
             /\ ReleasedNow(objs, objs') # {} \/ crashed'
             /\ ReleasedNow(bitmaps, bitmaps') \cup ReleasedNow(nsapps, nsapps')
                  \cup ReleasedNow(strs, strs') \cup ReleasedNow(imgs, imgs') = {}
       /\ CallsTo("release")' # {} =>
             /\ ReleasedNow(bitmaps, bitmaps') \cup ReleasedNow(nsapps, nsapps')
                  \cup ReleasedNow(strs, strs') # {}
             /\ ReleasedNow(objs, objs') \cup ReleasedNow(imgs, imgs') = {}
      ]_vars

\* A mouse event, a pixel sequence that captured an image, and an application
\* handle were each dropped: the event's handle, the bitmap and the
\* application object are released once each.
C27_Witness ==
    /\ last.op = "drop_app"
    /\ Len(evs) = 1 /\ evs[1].cls = "mouse" /\ evs[1].h # NULL /\ objs[evs[1].h].rel = 1
    /\ Len(seqs) = 1 /\ bitmaps[seqs[1].bitmap].rel = 1
    /\ bitmaps[seqs[1].bitmap].image # NULL
    /\ apps[last.ev].h # NULL /\ nsapps[apps[last.ev].h].rel = 1

\* ---------------------------------------------------------------------------
\* Lists of displays (os/macos/screen.rs: write_displays)
\* ---------------------------------------------------------------------------
\* CGError values: success (the `== 0` of write_displays) and a failure.
CGErrors == {0, 1000}

\* Identifiers of displays.
DisplayIds == 1..MaxDisplays

\* What memory that was never written may hold: any u32.  The identifiers,
\* zero, and MaxDisplays + 1 for every value that identifies no display.
Garbage == 0..(MaxDisplays + 1)

\* The lists of displays the system may have attached: no display twice.
DisplayLists ==
    {ds \in UNION {[1..n -> DisplayIds] : n \in 0..MaxDisplays} :
        \A i \in 1..Len(ds) : \A j \in 1..Len(ds) : i < j => ds[i] < ds[j]}

Min(a, b) == IF a < b THEN a ELSE b

\* CGGetOnlineDisplayList / CGGetActiveDisplayList(maxDisplays, displays,
\* &count) while `ds` are attached: with a null array it counts them, else it
\* writes at most maxDisplays of them and counts what it wrote.
DisplayListCount(max, ds, null) == IF null THEN Len(ds) ELSE Min(max, Len(ds))
DisplayListWritten(max, ds) == SubSeq(ds, 1, Min(max, Len(ds)))

\* The memory of a Vec is a sequence of cells; a cell is the set of values
\* a read of it may give: one value once written, Garbage before.
\* buf.clear(): the length becomes zero, the memory keeps what it held.
clear(vec, rest) == [i \in 1..Len(vec) |-> {vec[i]}] \o rest

\* buf.reserve(len) on an empty Vec: a capacity below len grows to it; the
\* cells there were keep their contents, the new ones were never written.
reserve(mem, len) ==
    IF Len(mem) >= len THEN mem
    ELSE mem \o [i \in 1..(len - Len(mem)) |-> Garbage]

\* The memory after the filling call wrote `written` from buf.as_mut_ptr().
Filled(mem, written) ==
    [i \in 1..Len(mem) |-> IF i <= Len(written) THEN {written[i]} ELSE mem[i]]

\* buf.set_len(len): the first len cells become the contents, whatever they
\* hold; the result is every sequence a read of them may give.
set_len(mem, len) ==
    {r \in [1..len -> Garbage] : \A i \in 1..len : r[i] \in mem[i]}

\* write_displays(get, buf), for Display::write_online(buf) and
\* Display::write_active(buf).  d1, d2: the displays attached at the
\* counting and at the filling call; e1, e2: the errors the calls report.
write_displays(op, get, d1, d2, e1, e2) ==
    /\ ~crashed
    /\ LET cleared == clear(buf, spare)
           count == DisplayListCount(0, d1, TRUE)
           len == count
           reserved == reserve(cleared, len)
           written == DisplayListWritten(count, d2)
           filled == Filled(reserved, written)
           counting == [fn |-> get, max |-> 0, ret |-> e1,
                        count |-> IF e1 = 0 THEN count ELSE 0, list |-> <<>>]
           filling == [fn |-> get, max |-> count, ret |-> e2,
                       count |-> IF e2 = 0 THEN DisplayListCount(count, d2, FALSE)
                                 ELSE count,
                       list |-> IF e2 = 0 THEN written ELSE <<>>]
       IN
       IF e1 # 0
       THEN /\ buf' = <<>>
            /\ spare' = cleared
            /\ last' = [op |-> op, ev |-> 0, ret |-> "unit", calls |-> <<counting>>]
       ELSE IF e2 # 0
       THEN /\ buf' = <<>>
            /\ spare' = reserved
            /\ last' = [op |-> op, ev |-> 0, ret |-> "unit",
                        calls |-> <<counting, filling>>]
       ELSE /\ buf' \in set_len(filled, len)
            /\ spare' = SubSeq(filled, len + 1, Len(filled))
            /\ last' = [op |-> op, ev |-> 0, ret |-> "unit",
                        calls |-> <<counting, filling>>]
    /\ UNCHANGED <<evars, tvars, wcursor, dcs, strs, workspace, calling>>

\* The displays attached at the counting call: the first n of them.
CountedLists == {ds \in DisplayLists : \A i \in 1..Len(ds) : ds[i] = i}

NextDisplays ==
    \/ \E d1 \in CountedLists, d2 \in DisplayLists, e1 \in CGErrors, e2 \in CGErrors :
          write_displays("write_online", "CGGetOnlineDisplayList", d1, d2, e1, e2)
    \/ \E d1 \in CountedLists, d2 \in DisplayLists, e1 \in CGErrors, e2 \in CGErrors :
          write_displays("write_active", "CGGetActiveDisplayList", d1, d2, e1, e2)

SpecDisplays == Init /\ [][NextDisplays]_vars

\* C28: after write_online or write_active has returned, buf holds only
\* display identifiers the system wrote during that call: buf is empty when
\* either list call reported an error, and otherwise it is no longer than the
\* number of entries the second call wrote and equals them entry by entry.
C28_OnlyWritten ==
    last.op \in {"write_online", "write_active"} =>
        IF Len(last.calls) = 2 /\ last.calls[1].ret = 0 /\ last.calls[2].ret = 0
        THEN /\ Len(buf) <= last.calls[2].count
             /\ \A i \in 1..Len(buf) : buf[i] = last.calls[2].list[i]
        ELSE buf = <<>>

\* ---------------------------------------------------------------------------
\* Mutation and posting of events (os/macos/mod.rs: impl Event)
\* ---------------------------------------------------------------------------
\* Mouse events whose flags and location are changed between posts at the
\* three injection points.
NextMutate ==
    \/ \E ok \in BOOLEAN :
          /\ Len(evs) < MaxMutatedEvents
          /\ mouse_Event_new("Left", "Down", <<F(0), F(0)>>, ok, {})
    \/ \E e \in LiveEvents, f \in {{}, {SHIFT, NON_COALESCED}} : Event_set_flags(e, f)
    \/ \E e \in LiveEvents, f \in {{SHIFT}, {NON_COALESCED}} : Event_enable_flags(e, f)
    \/ \E e \in LiveEvents, l \in {<<F(0), F(0)>>, <<F(4), F(2)>>} :
          mouse_Event_set_location(e, l)
    \/ \E e \in LiveEvents, l \in EventLocations :
          /\ stream < MaxMutatedPosts
          /\ Event_post(e, l)

SpecMutate == Init /\ [][NextMutate]_vars

\* The native codes of the injection points.
TapCodes == [Hid |-> 0, Session |-> 1, AnnotatedSession |-> 2]

\* C29: mutating an event never posts it.  set_flags, enable_flags and
\* set_location issue no CGEventPost, leave the stream and every other native
\* event as they were; the stream grows only in a post, by one; and a post of
\* an event issues one CGEventPost with the code of the requested injection
\* point (Hid 0, Session 1, AnnotatedSession 2), carrying the flags the event
\* has at that moment.
C29_MutationNeverPosts ==
    [][/\ last'.op \in {"set_flags", "enable_flags", "set_location"} =>
             /\ stream' = stream
             /\ CallsTo("CGEventPost")' = {}
             /\ evs' = evs
             /\ \A h \in Handles : h # evs[last'.ev].h => objs'[h] = objs[h]
       /\ stream' # stream => last'.op = "post" /\ stream' = stream + 1
       /\ (last'.op = "post" /\ evs[last'.ev].h # NULL) =>
             /\ stream' = stream + 1
             /\ Cardinality(CallsTo("CGEventPost")') = 1
             /\ Len(last'.calls) = 1
             /\ last'.calls[1].tap = TapCodes[last'.calls[1].arg]
             /\ last'.calls[1].flags = CGEventGetFlags(evs[last'.ev].h)
             /\ objs'[evs[last'.ev].h].flags = CGEventGetFlags(evs[last'.ev].h)
      ]_vars

\* An event created without flags at the origin, whose flags and location
\* were changed since, is posted a second time, at AnnotatedSession: the
\* call carries code 2 and the flags and location of the event as changed.
C29_Witness ==
    /\ last.op = "post" /\ stream = 2
    /\ last.calls[1].arg = "AnnotatedSession" /\ last.calls[1].tap = 2
    /\ last.calls[1].flags = {SHIFT, NON_COALESCED}
    /\ last.calls[1].loc = CGPoint_from(width, <<F(4), F(2)>>)
    /\ objs[evs[last.ev].h].flags = {SHIFT, NON_COALESCED}
====
